---- MODULE Spec2Model ----
(***************************************************************************)
(* Model of the connection registry of uart-mcp                            *)
(* (src/uart_mcp/serial_manager.py): the port map guarded by the registry  *)
(* lock, the client operations open_port / close_port / set_config /       *)
(* get_status, and the reconnect supervisor thread.                        *)
(*                                                                         *)
(* Representation choices:                                                 *)
(*   - stop bits are held in tenths (10, 15, 20 for 1, 1.5, 2);            *)
(*   - a handle timeout in seconds (ms / 1000.0) is the pair <<ms, 1000>>; *)
(*   - a physical handle (serial.Serial object) is a slot of handles; a    *)
(*     closed object that nothing refers to is garbage and its slot is     *)
(*     free again.  Every ManagedPort object is built around a fresh       *)
(*     handle, so the slot also identifies the ManagedPort object;         *)
(*   - the registry dict is the function ports plus its key order.         *)
(***************************************************************************)
EXTENDS Integers, Sequences, FiniteSets, TLC

(* ---------------------------------------------------------------------- *)
(* Bounds                                                                  *)
(* ---------------------------------------------------------------------- *)
MaxHandles == 3

Clients == {"c1", "c2"}

Sup == "sup"

Threads == Clients \cup {Sup}

OpenablePorts == {"p1"}

Blacklisted == {"pb"}

PortIds == OpenablePorts \cup Blacklisted

(* ---------------------------------------------------------------------- *)
(* types.py                                                                *)
(* ---------------------------------------------------------------------- *)
SUPPORTED_BAUDRATES ==
  {300, 600, 1200, 2400, 4800, 9600, 14400, 19200, 38400, 57600,
   115200, 230400, 460800, 921600}

SUPPORTED_BYTESIZES == {5, 6, 7, 8}

Parity ==
  [N |-> "NONE", E |-> "EVEN", O |-> "ODD", M |-> "MARK", S |-> "SPACE"]

ParityValue ==
  [NONE |-> "N", EVEN |-> "E", ODD |-> "O", MARK |-> "M", SPACE |-> "S"]

StopBits == [s \in {10, 15, 20} |->
  IF s = 10 THEN "ONE" ELSE IF s = 15 THEN "ONE_POINT_FIVE" ELSE "TWO"]

StopBitsValue == [ONE |-> 10, ONE_POINT_FIVE |-> 15, TWO |-> 20]

FlowControl == [none |-> "NONE", hardware |-> "HARDWARE", software |-> "SOFTWARE"]

FlowControlValue == [NONE |-> "none", HARDWARE |-> "hardware", SOFTWARE |-> "software"]

DEFAULT_BAUDRATE == 9600

DEFAULT_BYTESIZE == 8

DEFAULT_TIMEOUT_MS == 1000

DEFAULT_WRITE_TIMEOUT_MS == 1000

MAX_TIMEOUT_MS == 60000

Fields ==
  <<"baudrate", "bytesize", "parity", "stopbits", "flow_control",
    "read_timeout_ms", "write_timeout_ms">>

FieldSet == {Fields[i] : i \in 1..Len(Fields)}

\* The keyword defaults of open_port, as argument values.
DefaultArgs ==
  [baudrate |-> DEFAULT_BAUDRATE, bytesize |-> DEFAULT_BYTESIZE,
   parity |-> "N", stopbits |-> 10, flow_control |-> "none",
   read_timeout_ms |-> DEFAULT_TIMEOUT_MS,
   write_timeout_ms |-> DEFAULT_WRITE_TIMEOUT_MS]

\* SerialConfig.to_dict: the plain values of a stored configuration.
ConfigToDict(c) ==
  [baudrate |-> c.baudrate, bytesize |-> c.bytesize,
   parity |-> ParityValue[c.parity], stopbits |-> StopBitsValue[c.stopbits],
   flow_control |-> FlowControlValue[c.flow_control],
   read_timeout_ms |-> c.read_timeout_ms,
   write_timeout_ms |-> c.write_timeout_ms]

(* ---------------------------------------------------------------------- *)
(* SerialManager._validate_and_create_config                               *)
(* ---------------------------------------------------------------------- *)
\* Variant: the byte size is not validated.
InvalidFieldSkipsBytesize(a) ==
  IF a.baudrate \notin SUPPORTED_BAUDRATES THEN "baudrate"
  ELSE IF a.parity \notin DOMAIN Parity THEN "parity"
  ELSE IF a.stopbits \notin DOMAIN StopBits THEN "stopbits"
  ELSE IF a.flow_control \notin DOMAIN FlowControl THEN "flow_control"
  ELSE IF a.read_timeout_ms < 0 \/ a.read_timeout_ms > MAX_TIMEOUT_MS
    THEN "read_timeout_ms"
  ELSE IF a.write_timeout_ms < 0 \/ a.write_timeout_ms > MAX_TIMEOUT_MS
    THEN "write_timeout_ms"
  ELSE ""

\* Variant: the parity is validated before the byte size.
InvalidFieldParityFirst(a) ==
  IF a.baudrate \notin SUPPORTED_BAUDRATES THEN "baudrate"
  ELSE IF a.parity \notin DOMAIN Parity THEN "parity"
  ELSE IF a.bytesize \notin SUPPORTED_BYTESIZES THEN "bytesize"
  ELSE IF a.stopbits \notin DOMAIN StopBits THEN "stopbits"
  ELSE IF a.flow_control \notin DOMAIN FlowControl THEN "flow_control"
  ELSE IF a.read_timeout_ms < 0 \/ a.read_timeout_ms > MAX_TIMEOUT_MS
    THEN "read_timeout_ms"
  ELSE IF a.write_timeout_ms < 0 \/ a.write_timeout_ms > MAX_TIMEOUT_MS
    THEN "write_timeout_ms"
  ELSE ""

\* The field named by the InvalidParamError the validation raises, or
\* "" when every check passes.  The checks run in source order.
InvalidField(a) ==
  IF a.baudrate \notin SUPPORTED_BAUDRATES THEN "baudrate"
  ELSE IF a.bytesize \notin SUPPORTED_BYTESIZES THEN "bytesize"
  ELSE IF a.parity \notin DOMAIN Parity THEN "parity"
  ELSE IF a.stopbits \notin DOMAIN StopBits THEN "stopbits"
  ELSE IF a.flow_control \notin DOMAIN FlowControl THEN "flow_control"
  ELSE IF a.read_timeout_ms < 0 \/ a.read_timeout_ms > MAX_TIMEOUT_MS
    THEN "read_timeout_ms"
  ELSE IF a.write_timeout_ms < 0 \/ a.write_timeout_ms > MAX_TIMEOUT_MS
    THEN "write_timeout_ms"
  ELSE ""

\* The SerialConfig built when validation passes.
CreateConfig(a) ==
  [baudrate |-> a.baudrate, bytesize |-> a.bytesize,
   parity |-> Parity[a.parity], stopbits |-> StopBits[a.stopbits],
   flow_control |-> FlowControl[a.flow_control],
   read_timeout_ms |-> a.read_timeout_ms,
   write_timeout_ms |-> a.write_timeout_ms]

\* Variant: an omitted argument takes the default instead of the current
\* value.
MergeArgsDefaults(cc, f) ==
  [k \in FieldSet |-> IF k \in DOMAIN f THEN f[k] ELSE DefaultArgs[k]]

\* set_config: arguments given (in DOMAIN f) replace the current value,
\* omitted ones (None) take the current configuration's plain value.
MergeArgs(cc, f) ==
  [k \in FieldSet |-> IF k \in DOMAIN f THEN f[k] ELSE ConfigToDict(cc)[k]]

(* ---------------------------------------------------------------------- *)
(* Settings of a physical handle                                           *)
(* ---------------------------------------------------------------------- *)
\* The keyword arguments _create_serial passes to serial.Serial, which are
\* also the settings _apply_config writes to an open handle.
SerialSettings(c) ==
  [baudrate |-> c.baudrate, bytesize |-> c.bytesize,
   parity |-> ParityValue[c.parity], stopbits |-> StopBitsValue[c.stopbits],
   timeout |-> <<c.read_timeout_ms, 1000>>,
   write_timeout |-> <<c.write_timeout_ms, 1000>>,
   xonxoff |-> (c.flow_control = "SOFTWARE"),
   rtscts |-> (c.flow_control = "HARDWARE")]

(* ---------------------------------------------------------------------- *)
(* Inputs                                                                  *)
(* ---------------------------------------------------------------------- *)
\* The open_port calls the clients make: <<arguments, auto_reconnect>>.
OpenCalls ==
  {<<DefaultArgs, TRUE>>,
   <<[DefaultArgs EXCEPT !.baudrate = 115200, !.flow_control = "software"], FALSE>>,
   <<[DefaultArgs EXCEPT !.bytesize = 9], TRUE>>}

\* Keyword arguments the clients pass to set_config (omitted = None).
SetArgSet ==
  {[baudrate |-> 19200, read_timeout_ms |-> 0],
   [stopbits |-> 30]}

(* ---------------------------------------------------------------------- *)
(* State                                                                   *)
(* ---------------------------------------------------------------------- *)
VARIABLES
  ports,     \* SerialManager._ports: port id -> ManagedPort
  order,     \* key order of the _ports dict
  handles,   \* the serial.Serial objects in memory, by slot
  deviceOk,  \* environment: the device behind a port id can be opened
  lock,      \* owner of SerialManager._lock, or "free"
  pc,        \* position of every thread
  loc,       \* arguments, locals and result of a client's current call
  sup,       \* locals of the reconnect thread, and SerialManager._running
  sessions,  \* TerminalManager._sessions: port id -> TerminalSession object
  sess,      \* the TerminalSession objects in memory, by slot
  tlock,     \* owner of TerminalManager._lock, or "free"
  rx,        \* environment: bytes a device has sent that were not read yet
  tx,        \* the data of the last write to each port
  cfg        \* ConfigManager._config, the rules of BlacklistManager, and
             \* environment: the two files they are loaded from

\* The variables of the terminal layer, and those of the configuration,
\* which no action of the connection registry touches.
tvars == <<sessions, sess, tlock, rx, tx, cfg>>

\* The variables of the connection registry, but for the threads, and those
\* of the configuration, which no action of the terminal layer touches.
svars == <<ports, order, handles, deviceOk, lock, sup, cfg>>

vars == <<ports, order, handles, deviceOk, lock, pc, loc, sup,
          sessions, sess, tlock, rx, tx, cfg>>

Idle == [op |-> "none"]

NoAttempt == [port |-> "", config |-> [none |-> TRUE], target |-> 0]

\* ManagedPort.__init__
ManagedPort(h, c, ar) ==
  [handle |-> h, config |-> c, reconnecting |-> FALSE, auto_reconnect |-> ar]

\* An empty slot: no object, or one that was closed and dropped.
NoSerial ==
  [port |-> "", open |-> FALSE, alive |-> FALSE, fault |-> FALSE,
   closeCalled |-> FALSE,
   settings |-> [none |-> TRUE]]

\* The object serial.Serial(...) returns when the device opens.
NewSerial(p, c) ==
  [port |-> p, open |-> TRUE, alive |-> TRUE, fault |-> FALSE,
   closeCalled |-> FALSE,
   settings |-> SerialSettings(c)]

HandleIds == 1..MaxHandles

\* ManagedPort.is_connected: the handle is open and in_waiting does not
\* raise SerialException / OSError.
IsConnected(h) == handles[h].open /\ handles[h].alive

\* ManagedPort.is_connected raises: the handle is open and in_waiting raises
\* an exception that is neither SerialException nor OSError, which the
\* except clause lets through.
ProbeRaises(h) == handles[h].open /\ handles[h].fault

\* An exception that leaves an operation and is not a SerialError.
Raised(name) == [kind |-> "raised", code |-> name]

\* A handle whose close() raised: it stays open, and since nothing refers to
\* it any more only that fact is kept.
LeakedSerial(p) ==
  [port |-> p, open |-> TRUE, alive |-> FALSE, fault |-> FALSE,
   closeCalled |-> TRUE,
   settings |-> [none |-> TRUE]]

\* serial.Serial.close() on handle h; when it raises, the handle stays
\* open.
CloseSerial(hs, h, raised) ==
  [hs EXCEPT ![h] = IF raised THEN LeakedSerial(@.port) ELSE NoSerial]

PortStatus(p, e) ==
  [port |-> p, is_open |-> TRUE, config |-> e.config,
   connected |-> IsConnected(e.handle), reconnecting |-> e.reconnecting]

\* `return PortStatus(..., connected=managed.is_connected, ...)`: the status,
\* or the exception the probe lets through.
StatusResult(h, status) ==
  IF ProbeRaises(h) THEN Raised("Exception")
  ELSE [kind |-> "status", status |-> status]

\* dict assignment self._ports[p] = e
DictSet(d, p, e) ==
  [q \in DOMAIN d \cup {p} |-> IF q = p THEN e ELSE d[q]]

\* Variant: the removal leaves the dict as it is.
DictPopKeeps(d, p) == d

\* dict removal self._ports.pop(p)
DictPop(d, p) == [q \in DOMAIN d \ {p} |-> d[q]]

SerialError(code) == [kind |-> "error", code |-> code, field |-> ""]

InvalidParamError(field) ==
  [kind |-> "error", code |-> "INVALID_PARAM", field |-> field]

\* ErrorCode: the names of the error catalogue.
ErrorCode ==
  {"PORT_NOT_FOUND", "PORT_BUSY", "PORT_OPEN_FAILED", "PORT_CLOSED",
   "INVALID_PARAM", "READ_TIMEOUT", "WRITE_FAILED", "PERMISSION_DENIED",
   "PORT_BLACKLISTED", "SESSION_EXISTS", "SESSION_NOT_FOUND", "PORT_NOT_OPEN",
   "SESSION_CLOSED", "SEND_COMMAND_FAILED", "INVALID_LINE_ENDING"}

\* Error kinds _create_serial raises when serial.Serial fails.
OpenFailureCodes ==
  {"PORT_NOT_FOUND", "PERMISSION_DENIED", "PORT_BUSY", "PORT_OPEN_FAILED"}

(* ---------------------------------------------------------------------- *)
(* terminal_manager.py: state                                              *)
(* ---------------------------------------------------------------------- *)
MaxSessions == 2

SessionIds == 1..MaxSessions

\* LineEnding: the bytes of each member.
LineEnding == [CR |-> <<13>>, LF |-> <<10>>, CRLF |-> <<13, 10>>]

\* str.upper() on the line-ending names the callers pass.
Upper ==
  [CR |-> "CR", LF |-> "LF", CRLF |-> "CRLF", crlf |-> "CRLF", INVALID |-> "INVALID"]

\* No TerminalSession object in the slot.
NoSession ==
  [port |-> "", line_ending |-> "", local_echo |-> FALSE, max |-> 0,
   buffer |-> <<>>, size |-> 0, running |-> FALSE, stop |-> FALSE,
   block |-> "free", rpc |-> "none", data |-> <<>>]

\* TerminalSession.__init__: empty buffer, not running, no thread.
TerminalSession(p, le, echo, n) ==
  [port |-> p, line_ending |-> le, local_echo |-> echo, max |-> n,
   buffer |-> <<>>, size |-> 0, running |-> FALSE, stop |-> FALSE,
   block |-> "free", rpc |-> "none", data |-> <<>>]

\* TerminalManager.__init__, and nothing received or written yet.
(* ---------------------------------------------------------------------- *)
(* The configuration file and the blacklist file                           *)
(* ---------------------------------------------------------------------- *)
\* UartConfig(): the fields kept here, with their defaults.
UartConfig == [baudrate |-> 115200, read_timeout |-> 1000, auto_reconnect |-> TRUE]

\* stat.S_IMODE of a file: 0o600 and 0o644.
OwnerOnly == 384

WorldReadable == 420

\* A value of a TOML document, with its Python type.
TomlInt(n) == [type |-> "int", v |-> n]

TomlStr(x) == [type |-> "str", v |-> x]

Absent == [type |-> "absent"]

\* What tomllib.load gives for the documents considered: a decode error, or
\* the values of serial.baudrate, timeout.read_timeout and
\* reconnect.auto_reconnect, each present or not.
Documents ==
  {[error |-> TRUE]} \cup
  [error : {FALSE},
   baudrate : {Absent, TomlInt(9600), TomlStr("fast")},
   read_timeout : {Absent},
   auto_reconnect : {Absent, TomlInt(1)}]

NoConfigFile == [exists |-> FALSE, mode |-> OwnerOnly, doc |-> [error |-> TRUE]]

ConfigFiles ==
  {NoConfigFile} \cup
  [exists : {TRUE}, mode : {OwnerOnly, WorldReadable}, doc : Documents]

\* isinstance(raw, int): bool is a subclass of int.
IsInt(x) == x.type \in {"int", "bool"}

IsBool(x) == x.type = "bool"

\* ConfigManager._build_config_from_dict: a present key replaces the
\* default after its type check; the first failed check raises ValueError.
BuildConfigFromDict(d) ==
  IF d.baudrate # Absent /\ ~IsInt(d.baudrate)
    THEN [kind |-> "error", type |-> "ValueError"]
  ELSE IF d.read_timeout # Absent /\ ~IsInt(d.read_timeout)
    THEN [kind |-> "error", type |-> "ValueError"]
  ELSE IF d.auto_reconnect # Absent /\ ~IsBool(d.auto_reconnect)
    THEN [kind |-> "error", type |-> "ValueError"]
  ELSE [kind |-> "config",
        config |->
          [baudrate |-> IF d.baudrate = Absent THEN UartConfig.baudrate
                        ELSE d.baudrate.v,
           read_timeout |-> IF d.read_timeout = Absent
                              THEN UartConfig.read_timeout
                              ELSE d.read_timeout.v,
           auto_reconnect |-> IF d.auto_reconnect = Absent
                                THEN UartConfig.auto_reconnect
                                ELSE d.auto_reconnect.v]]

\* ConfigManager._load_config_from_file
LoadConfigFromFile(f) ==
  IF f.exists /\ f.mode # OwnerOnly
    THEN [kind |-> "error", type |-> "PermissionError"]
  ELSE IF ~f.exists
    THEN [kind |-> "config", config |-> UartConfig]
  ELSE IF f.doc.error
    THEN [kind |-> "error", type |-> "ValueError"]
  ELSE BuildConfigFromDict(f.doc)

\* The lines of a blacklist file, as sequences of characters.
Lines ==
  {<<"p", "1">>, <<" ", "#", "p", " ">>, <<"p", "[", "1", "]">>, <<"p", "[">>}

MaxLines == 1

NoBlacklistFile ==
  [exists |-> FALSE, mode |-> OwnerOnly, lines |-> <<>>, readable |-> 0]

\* readable: the number of lines that can be read before the read fails.
BlacklistFiles ==
  {NoBlacklistFile} \cup
  {f \in [exists : {TRUE}, mode : {OwnerOnly, WorldReadable},
          lines : UNION {[1..n -> Lines] : n \in 0..MaxLines},
          readable : 0..MaxLines] : f.readable <= Len(f.lines)}

RECURSIVE LStrip(_)
LStrip(l) == IF l # <<>> /\ Head(l) = " " THEN LStrip(Tail(l)) ELSE l

RECURSIVE RStrip(_)
RStrip(l) ==
  IF l # <<>> /\ l[Len(l)] = " " THEN RStrip(SubSeq(l, 1, Len(l) - 1)) ELSE l

\* str.strip()
Strip(l) == RStrip(LStrip(l))

SpecialChars == {"[", "]", "{", "}", "(", ")", "*", "+", "?", "|", "^", "$", ".", "\\"}

IsRegex(e) == \E k \in 1..Len(e) : e[k] \in SpecialChars

Count(e, c) == Cardinality({k \in 1..Len(e) : e[k] = c})

\* re.compile(entry) succeeds: for the lines considered, the brackets
\* are closed.
Compiles(e) == Count(e, "[") = Count(e, "]")

\* BlacklistManager._add_entry on rules r
AddEntry(r, e) ==
  IF IsRegex(e)
    THEN IF Compiles(e)
           THEN [r EXCEPT !.patterns = Append(@, e)]
           ELSE r
    ELSE [r EXCEPT !.exact = @ \cup {e}]

\* The loop of _load_blacklist over the first n lines
RECURSIVE AddLines(_, _, _)
AddLines(r, lines, n) ==
  IF n = 0 THEN r
  ELSE LET prev == AddLines(r, lines, n - 1)
           line == Strip(lines[n])
       IN IF line = <<>> \/ Head(line) = "#" THEN prev
          ELSE AddEntry(prev, line)

NoRules == [patterns |-> <<>>, exact |-> {}]

\* BlacklistManager._load_blacklist on rules r: the rules it leaves, and
\* the exception it raises if any.  Reading fails with OSError after
\* f.readable lines when the file has more.
LoadBlacklist(r, f) ==
  IF ~f.exists THEN [rules |-> r, raised |-> "none"]
  ELSE IF f.mode # OwnerOnly THEN [rules |-> r, raised |-> "PermissionError"]
  ELSE IF f.readable < Len(f.lines)
    THEN [rules |-> AddLines(r, f.lines, f.readable), raised |-> "OSError"]
  ELSE [rules |-> AddLines(r, f.lines, Len(f.lines)), raised |-> "none"]

\* ConfigManager() and BlacklistManager() constructed with no file there.
CfgInit ==
  cfg = [config |-> UartConfig, rules |-> NoRules,
         cfile |-> NoConfigFile, bfile |-> NoBlacklistFile]

TermInit ==
  /\ sessions = [q \in {} |-> 0]
  /\ sess = [i \in SessionIds |-> NoSession]
  /\ tlock = "free"
  /\ rx = [p \in OpenablePorts |-> <<>>]
  /\ tx = [p \in OpenablePorts |-> <<>>]

Init ==
  /\ TermInit
  /\ CfgInit
  /\ ports = [q \in {} |-> Idle]
  /\ order = <<>>
  /\ handles = [h \in HandleIds |-> NoSerial]
  /\ deviceOk = [p \in PortIds |-> TRUE]
  /\ lock = "free"
  /\ pc = [t \in Threads |-> IF t = Sup THEN "sup_sleep" ELSE "idle"]
  /\ loc = [t \in Clients |-> Idle]
  /\ sup = [queue |-> <<>>, cur |-> NoAttempt, newh |-> 0, running |-> TRUE]

(* ---------------------------------------------------------------------- *)
(* The registry lock                                                       *)
(* ---------------------------------------------------------------------- *)
\* Where a thread waiting for the lock continues once it holds it.
LockEntry ==
  [open_lock |-> "open_check", close_lock |-> "close_pop",
   set_lock |-> "set_lookup", status_lock |-> "status_read",
   sup_swap_lock |-> "sup_swap", sup_fail_lock |-> "sup_fail",
   sh_lock |-> "sh_close"]

\* Where a thread continues after leaving its `with self._lock` block.
LockExit ==
  [release |-> "idle", sup_release |-> "sup_next",
   sup_raise |-> "sup_fail_lock"]

Goto(t, l) == pc' = [pc EXCEPT ![t] = l]

\* Variant: the with block is entered whoever holds the lock.
AcquireLockUnguarded(t) ==
  /\ pc[t] \in DOMAIN LockEntry
  /\ lock' = t
  /\ Goto(t, LockEntry[pc[t]])
  /\ UNCHANGED <<ports, order, handles, deviceOk, loc, sup>>

\* `with self._lock:` entry
AcquireLock(t) ==
  /\ pc[t] \in DOMAIN LockEntry
  /\ lock = "free"
  /\ lock' = t
  /\ Goto(t, LockEntry[pc[t]])
  /\ UNCHANGED <<ports, order, handles, deviceOk, loc, sup>>

\* `with self._lock:` exit, by return or by exception.  A client's call
\* ends here: its result (loc[t].ret) goes to the caller.
ReleaseLock(t) ==
  /\ pc[t] \in DOMAIN LockExit
  /\ lock' = "free"
  /\ Goto(t, LockExit[pc[t]])
  /\ loc' = [c \in Clients |-> IF c = t THEN Idle ELSE loc[c]]
  /\ UNCHANGED <<ports, order, handles, deviceOk, sup>>

\* A call that failed before the lock ends: the caller has its error.
Return(t) ==
  /\ pc[t] = "done"
  /\ Goto(t, "idle")
  /\ loc' = [loc EXCEPT ![t] = Idle]
  /\ UNCHANGED <<ports, order, handles, deviceOk, lock, sup>>

\* Slots the reconnect thread's pending attempts still name (target).
Targets ==
  {sup.queue[i].target : i \in 1..Len(sup.queue)} \cup {sup.cur.target}

\* Slots a local variable of a running call or attempt still refers to.
Held ==
  {loc[t].h : t \in {c \in Clients : "h" \in DOMAIN loc[c]}} \cup {sup.newh}

\* Slots a new serial.Serial object can take.
FreeSlots ==
  {h \in HandleIds : ~handles[h].open /\ h \notin Targets \cup Held}

NewSlot == CHOOSE h \in FreeSlots : \A g \in FreeSlots : h <= g

\* serial.Serial(port=p, ...) succeeds: the device is there and the process
\* can hold one more open handle.
CanOpen(p) == deviceOk[p] /\ FreeSlots # {}

(* ---------------------------------------------------------------------- *)
(* SerialManager.list_ports                                                *)
(* ---------------------------------------------------------------------- *)
\* The devices comports() enumerates are the environment's choice; those
\* the blacklist reports are skipped.  Nothing shared is read or written.
ListPorts(t) ==
  /\ pc[t] = "idle"
  /\ \E devs \in SUBSET PortIds :
       loc' = [loc EXCEPT ![t] =
                 [op |-> "list_ports",
                  ret |-> [kind |-> "ports",
                           ports |-> {p \in devs : p \notin Blacklisted}]]]
  /\ Goto(t, "done")
  /\ UNCHANGED <<ports, order, handles, deviceOk, lock, sup>>

(* ---------------------------------------------------------------------- *)
(* SerialManager.open_port                                                 *)
(* ---------------------------------------------------------------------- *)
\* Variant: the arguments are validated before the blacklist is consulted.
OpenPortCallValidatesFirst(t, p, a, ar) ==
  /\ pc[t] = "idle"
  /\ LET call == [op |-> "open_port", port |-> p, args |-> a, auto |-> ar]
     IN IF InvalidField(a) # ""
          THEN /\ loc' = [loc EXCEPT ![t] =
                    call @@ [ret |-> InvalidParamError(InvalidField(a))]]
               /\ Goto(t, "done")
        ELSE IF p \in Blacklisted
          THEN /\ loc' = [loc EXCEPT ![t] =
                    call @@ [ret |-> SerialError("PORT_BLACKLISTED")]]
               /\ Goto(t, "done")
        ELSE /\ loc' = [loc EXCEPT ![t] = call @@ [config |-> CreateConfig(a)]]
             /\ Goto(t, "open_lock")
  /\ UNCHANGED <<ports, order, handles, deviceOk, lock, sup>>

\* Call, blacklist check and argument validation; nothing shared is read.
OpenPortCall(t, p, a, ar) ==
  /\ pc[t] = "idle"
  /\ LET call == [op |-> "open_port", port |-> p, args |-> a, auto |-> ar]
     IN IF p \in Blacklisted
          THEN /\ loc' = [loc EXCEPT ![t] =
                    call @@ [ret |-> SerialError("PORT_BLACKLISTED")]]
               /\ Goto(t, "done")
        ELSE IF InvalidField(a) # ""
          THEN /\ loc' = [loc EXCEPT ![t] =
                    call @@ [ret |-> InvalidParamError(InvalidField(a))]]
               /\ Goto(t, "done")
        ELSE /\ loc' = [loc EXCEPT ![t] = call @@ [config |-> CreateConfig(a)]]
             /\ Goto(t, "open_lock")
  /\ UNCHANGED <<ports, order, handles, deviceOk, lock, sup>>

\* Variant: an already open port gets the configuration just passed.
OpenPortCheckOverwrites(t) ==
  /\ pc[t] = "open_check"
  /\ LET p == loc[t].port
     IN IF p \in DOMAIN ports
          THEN /\ ports' = [ports EXCEPT ![p].config = loc[t].config]
               /\ loc' = [loc EXCEPT ![t] =
                    @ @@ [ret |-> StatusResult(ports[p].handle,
                                               PortStatus(p, ports'[p]))]]
               /\ Goto(t, "release")
          ELSE /\ Goto(t, "open_create")
               /\ UNCHANGED <<ports, loc>>
  /\ UNCHANGED <<order, handles, deviceOk, lock, sup>>

\* `if port in self._ports`: return the current status, else go on to open.
OpenPortCheck(t) ==
  /\ pc[t] = "open_check"
  /\ LET p == loc[t].port
     IN IF p \in DOMAIN ports
          THEN /\ loc' = [loc EXCEPT ![t] =
                    @ @@ [ret |-> StatusResult(ports[p].handle,
                                               PortStatus(p, ports[p]))]]
               /\ Goto(t, "release")
          ELSE /\ Goto(t, "open_create")
               /\ UNCHANGED loc
  /\ UNCHANGED <<ports, order, handles, deviceOk, lock, sup>>

\* serial_obj = self._create_serial(port, config)
OpenPortCreate(t) ==
  /\ pc[t] = "open_create"
  /\ LET p == loc[t].port
     IN IF CanOpen(p)
          THEN /\ handles' = [handles EXCEPT ![NewSlot] = NewSerial(p, loc[t].config)]
               /\ loc' = [loc EXCEPT ![t] = @ @@ [h |-> NewSlot]]
               /\ Goto(t, "open_insert")
          ELSE /\ \E code \in OpenFailureCodes :
                    loc' = [loc EXCEPT ![t] = @ @@ [ret |-> SerialError(code)]]
               /\ Goto(t, "release")
               /\ UNCHANGED handles
  /\ UNCHANGED <<ports, order, deviceOk, lock, sup>>

\* self._ports[port] = ManagedPort(port, serial_obj, config, auto_reconnect)
OpenPortInsert(t) ==
  /\ pc[t] = "open_insert"
  /\ LET p == loc[t].port
         e == ManagedPort(loc[t].h, loc[t].config, loc[t].auto)
     IN /\ ports' = DictSet(ports, p, e)
        /\ order' = IF p \in DOMAIN ports THEN order ELSE Append(order, p)
        /\ loc' = [loc EXCEPT ![t] =
             @ @@ [ret |-> StatusResult(loc[t].h,
                             [port |-> p, is_open |-> TRUE,
                              config |-> loc[t].config,
                              connected |-> IsConnected(loc[t].h),
                              reconnecting |-> FALSE])]]
  /\ Goto(t, "release")
  /\ UNCHANGED <<handles, deviceOk, lock, sup>>

(* ---------------------------------------------------------------------- *)
(* SerialManager.close_port                                                *)
(* ---------------------------------------------------------------------- *)
ClosePortCall(t, p) ==
  /\ pc[t] = "idle"
  /\ loc' = [loc EXCEPT ![t] = [op |-> "close_port", port |-> p]]
  /\ Goto(t, "close_lock")
  /\ UNCHANGED <<ports, order, handles, deviceOk, lock, sup>>

\* `if port not in self._ports: raise`, else managed = self._ports.pop(port)
ClosePortPop(t) ==
  /\ pc[t] = "close_pop"
  /\ LET p == loc[t].port
     IN IF p \notin DOMAIN ports
          THEN /\ loc' = [loc EXCEPT ![t] = @ @@ [ret |-> SerialError("PORT_CLOSED")]]
               /\ Goto(t, "release")
               /\ UNCHANGED <<ports, order>>
          ELSE /\ loc' = [loc EXCEPT ![t] = @ @@ [h |-> ports[p].handle]]
               /\ ports' = DictPop(ports, p)
               /\ order' = SelectSeq(order, LAMBDA q : q # p)
               /\ Goto(t, "close_serial")
  /\ UNCHANGED <<handles, deviceOk, lock, sup>>

\* managed.serial.close(), an exception is logged and swallowed
ClosePortSerial(t) ==
  /\ pc[t] = "close_serial"
  /\ \E raised \in BOOLEAN :
       handles' = CloseSerial(handles, loc[t].h, raised)
  /\ loc' = [loc EXCEPT ![t] = @ @@ [ret |-> [kind |-> "ok", success |-> TRUE]]]
  /\ Goto(t, "release")
  /\ UNCHANGED <<ports, order, deviceOk, lock, sup>>

(* ---------------------------------------------------------------------- *)
(* SerialManager.set_config                                                *)
(* ---------------------------------------------------------------------- *)
SetConfigCall(t, p, f) ==
  /\ pc[t] = "idle"
  /\ loc' = [loc EXCEPT ![t] = [op |-> "set_config", port |-> p, args |-> f]]
  /\ Goto(t, "set_lock")
  /\ UNCHANGED <<ports, order, handles, deviceOk, lock, sup>>

\* Lookup, merge of the given fields onto the current configuration and
\* validation of the merged values.
SetConfigLookup(t) ==
  /\ pc[t] = "set_lookup"
  /\ LET p == loc[t].port
     IN IF p \notin DOMAIN ports
          THEN /\ loc' = [loc EXCEPT ![t] = @ @@ [ret |-> SerialError("PORT_CLOSED")]]
               /\ Goto(t, "release")
          ELSE LET m == MergeArgs(ports[p].config, loc[t].args)
               IN IF InvalidField(m) # ""
                    THEN /\ loc' = [loc EXCEPT ![t] =
                              @ @@ [ret |-> InvalidParamError(InvalidField(m))]]
                         /\ Goto(t, "release")
                    ELSE /\ loc' = [loc EXCEPT ![t] =
                              @ @@ [h |-> ports[p].handle,
                                    current |-> ports[p].config,
                                    config |-> CreateConfig(m)]]
                         /\ Goto(t, "set_apply")
  /\ UNCHANGED <<ports, order, handles, deviceOk, lock, sup>>

\* self._apply_config(managed, new_config).  On a handle whose device is
\* gone the driver call may raise; the exception leaves set_config.
SetConfigApply(t) ==
  /\ pc[t] = "set_apply"
  /\ \/ /\ handles' = [handles EXCEPT ![loc[t].h].settings =
                          SerialSettings(loc[t].config)]
        /\ Goto(t, "set_store")
        /\ UNCHANGED loc
     \/ /\ ~IsConnected(loc[t].h)
        /\ loc' = [loc EXCEPT ![t] =
             @ @@ [ret |-> [kind |-> "raised", code |-> "SerialException"]]]
        /\ Goto(t, "release")
        /\ UNCHANGED handles
  /\ UNCHANGED <<ports, order, deviceOk, lock, sup>>

\* managed.config = new_config, and the status returned
SetConfigStore(t) ==
  /\ pc[t] = "set_store"
  /\ LET p == loc[t].port
     IN /\ ports' = [ports EXCEPT ![p].config = loc[t].config]
        /\ loc' = [loc EXCEPT ![t] =
             @ @@ [ret |-> StatusResult(loc[t].h,
                             [port |-> p, is_open |-> TRUE,
                              config |-> loc[t].config,
                              connected |-> IsConnected(loc[t].h),
                              reconnecting |-> ports[p].reconnecting])]]
  /\ Goto(t, "release")
  /\ UNCHANGED <<order, handles, deviceOk, lock, sup>>

(* ---------------------------------------------------------------------- *)
(* SerialManager.get_status                                                *)
(* ---------------------------------------------------------------------- *)
GetStatusCall(t, p) ==
  /\ pc[t] = "idle"
  /\ loc' = [loc EXCEPT ![t] = [op |-> "get_status", port |-> p]]
  /\ Goto(t, "status_lock")
  /\ UNCHANGED <<ports, order, handles, deviceOk, lock, sup>>

GetStatusRead(t) ==
  /\ pc[t] = "status_read"
  /\ LET p == loc[t].port
     IN loc' = [loc EXCEPT ![t] = @ @@
          [ret |-> IF p \notin DOMAIN ports
                     THEN SerialError("PORT_CLOSED")
                     ELSE StatusResult(ports[p].handle, PortStatus(p, ports[p]))]]
  /\ Goto(t, "release")
  /\ UNCHANGED <<ports, order, handles, deviceOk, lock, sup>>

(* ---------------------------------------------------------------------- *)
(* The reconnect thread: _reconnect_loop, _check_and_reconnect,            *)
(* _try_reconnect                                                          *)
(* ---------------------------------------------------------------------- *)
\* The test of the scan loop: an auto-reconnect port whose probe fails and
\* which is not being reconnected yet.
NeedsReconnect(p) ==
  /\ ports[p].auto_reconnect
  /\ ~IsConnected(ports[p].handle)
  /\ ~ports[p].reconnecting

\* The places in dict order where the probe of the scan loop raises: the
\* exception leaves _check_and_reconnect, and with it the list built so far.
Aborting ==
  {i \in 1..Len(order) :
     ports[order[i]].auto_reconnect /\ ProbeRaises(ports[order[i]].handle)}

ScanAborts == Aborting # {}

\* The ports the scan loop reaches before it ends or is aborted.
Scanned ==
  {order[i] : i \in {j \in 1..Len(order) : \A k \in Aborting : j < k}}

\* The ports the scan loop flags.
Selected(p) == p \in Scanned /\ NeedsReconnect(p)

\* Variant: the scan lists the port without marking it.
FlaggedNot(e) == e

\* The flag the scan loop leaves on a port it selects.
Flagged(e) == [e EXCEPT !.reconnecting = TRUE]

\* The interval has elapsed and `while self._running` is false: the thread
\* ends.
SupExit ==
  /\ pc[Sup] = "sup_sleep"
  /\ ~sup.running
  /\ Goto(Sup, "sup_exit")
  /\ UNCHANGED <<ports, order, handles, deviceOk, lock, loc, sup>>

\* The interval has elapsed and `while self._running` holds:
\* _check_and_reconnect enters `with self._lock`.
SupWake ==
  /\ pc[Sup] = "sup_sleep"
  /\ sup.running
  /\ lock = "free"
  /\ lock' = Sup
  /\ Goto(Sup, "sup_scan")
  /\ UNCHANGED <<ports, order, handles, deviceOk, loc, sup>>

\* The scan loop over list(self._ports.items()), in dict order: flag every
\* port that needs a reconnect and remember (port_path, managed.config).
\* target records which ManagedPort object was flagged.
SupScan ==
  /\ pc[Sup] = "sup_scan"
  /\ LET sel == SelectSeq(order, Selected)
     IN /\ ports' = [p \in DOMAIN ports |->
                       IF Selected(p) THEN Flagged(ports[p]) ELSE ports[p]]
        /\ sup' = [sup EXCEPT !.queue =
                     IF ScanAborts THEN <<>>
                     ELSE [i \in 1..Len(sel) |->
                        [port |-> sel[i], config |-> ports[sel[i]].config,
                         target |-> ports[sel[i]].handle]]]
  /\ Goto(Sup, "sup_release")
  /\ UNCHANGED <<order, handles, deviceOk, lock, loc>>

\* `for port_path, config in ports_to_reconnect`, then back to sleep
SupNext ==
  /\ pc[Sup] = "sup_next"
  /\ IF sup.queue = <<>>
       THEN /\ sup' = [sup EXCEPT !.cur = NoAttempt, !.newh = 0]
            /\ Goto(Sup, "sup_sleep")
       ELSE /\ sup' = [sup EXCEPT !.queue = Tail(sup.queue),
                                  !.cur = Head(sup.queue), !.newh = 0]
            /\ Goto(Sup, "sup_create")
  /\ UNCHANGED <<ports, order, handles, deviceOk, lock, loc>>

\* _try_reconnect: serial_obj = self._create_serial(port, config), outside
\* the lock; a failure goes to the except branch.
SupCreate ==
  /\ pc[Sup] = "sup_create"
  /\ IF CanOpen(sup.cur.port)
       THEN /\ handles' = [handles EXCEPT ![NewSlot] =
                             NewSerial(sup.cur.port, sup.cur.config)]
            /\ sup' = [sup EXCEPT !.newh = NewSlot]
            /\ Goto(Sup, "sup_swap_lock")
       ELSE /\ Goto(Sup, "sup_fail_lock")
            /\ UNCHANGED <<handles, sup>>
  /\ UNCHANGED <<ports, order, deviceOk, lock, loc>>

\* Variant: the entry the swap installs is still marked reconnecting.
ReconnectedFlagged(old, h, c) ==
  [ManagedPort(h, c, old.auto_reconnect) EXCEPT !.reconnecting = TRUE]

\* The entry the swap installs: the new handle, the configuration the scan
\* remembered, the current entry's auto_reconnect.
Reconnected(old, h, c) == ManagedPort(h, c, old.auto_reconnect)

\* Variant: the swap replaces the entry without closing the old handle.
SupSwapInstallKeepsOld ==
  /\ pc[Sup] = "sup_swap"
  /\ sup.cur.port \in DOMAIN ports
  /\ ports' = [ports EXCEPT ![sup.cur.port] =
                 Reconnected(ports[sup.cur.port], sup.newh, sup.cur.config)]
  /\ Goto(Sup, "sup_release")
  /\ UNCHANGED <<order, handles, deviceOk, lock, loc, sup>>

\* `if port in self._ports`: close the old handle (best effort) and replace
\* the entry.
SupSwapInstall ==
  /\ pc[Sup] = "sup_swap"
  /\ sup.cur.port \in DOMAIN ports
  /\ LET p == sup.cur.port
     IN /\ \E raised \in BOOLEAN :
             handles' = CloseSerial(handles, ports[p].handle, raised)
        /\ ports' = [ports EXCEPT ![p] =
                       Reconnected(ports[p], sup.newh, sup.cur.config)]
  /\ Goto(Sup, "sup_release")
  /\ UNCHANGED <<order, deviceOk, lock, loc, sup>>

\* Variant: the new handle is installed although the entry is gone.
SupSwapDiscardInstalls ==
  /\ pc[Sup] = "sup_swap"
  /\ sup.cur.port \notin DOMAIN ports
  /\ ports' = DictSet(ports, sup.cur.port,
                      ManagedPort(sup.newh, sup.cur.config, TRUE))
  /\ order' = Append(order, sup.cur.port)
  /\ Goto(Sup, "sup_release")
  /\ UNCHANGED <<handles, deviceOk, lock, loc, sup>>

\* `else`: the entry is gone, close the new handle; if that close raises,
\* control leaves the with block for the except branch.
SupSwapDiscard ==
  /\ pc[Sup] = "sup_swap"
  /\ sup.cur.port \notin DOMAIN ports
  /\ \E raised \in BOOLEAN :
       /\ handles' = CloseSerial(handles, sup.newh, raised)
       /\ Goto(Sup, IF raised THEN "sup_raise" ELSE "sup_release")
  /\ UNCHANGED <<ports, order, deviceOk, lock, loc, sup>>

\* Variant: a failed attempt leaves the flag set.
SupFailKeepsFlag ==
  /\ pc[Sup] = "sup_fail"
  /\ Goto(Sup, "sup_release")
  /\ UNCHANGED <<ports, order, handles, deviceOk, lock, loc, sup>>

\* except branch: `if port in self._ports: self._ports[port].reconnecting = False`
SupFail ==
  /\ pc[Sup] = "sup_fail"
  /\ LET p == sup.cur.port
     IN ports' = IF p \in DOMAIN ports
                   THEN [ports EXCEPT ![p].reconnecting = FALSE]
                   ELSE ports
  /\ Goto(Sup, "sup_release")
  /\ UNCHANGED <<order, handles, deviceOk, lock, loc, sup>>

(* ---------------------------------------------------------------------- *)
(* Environment: the device behind a port id                                *)
(* ---------------------------------------------------------------------- *)
\* The device disappears: every handle on it stops answering the probe and
\* a new open fails.
DeviceLost(p) ==
  /\ deviceOk[p]
  /\ deviceOk' = [deviceOk EXCEPT ![p] = FALSE]
  /\ handles' = [h \in HandleIds |->
                   IF handles[h].port = p
                     THEN [handles[h] EXCEPT !.alive = FALSE]
                     ELSE handles[h]]
  /\ UNCHANGED <<ports, order, lock, pc, loc, sup>>

\* The driver starts to answer in_waiting on the port's handle with an
\* exception that is neither SerialException nor OSError.
DeviceFaults(p) ==
  /\ p \in DOMAIN ports
  /\ ~handles[ports[p].handle].fault
  /\ handles' = [handles EXCEPT ![ports[p].handle].fault = TRUE]
  /\ UNCHANGED <<ports, order, deviceOk, lock, pc, loc, sup>>

\* The device is back: it can be opened again.
DeviceBack(p) ==
  /\ ~deviceOk[p]
  /\ deviceOk' = [deviceOk EXCEPT ![p] = TRUE]
  /\ UNCHANGED <<ports, order, handles, lock, pc, loc, sup>>

(* ---------------------------------------------------------------------- *)
(* Bytes and text                                                          *)
(* ---------------------------------------------------------------------- *)
RECURSIVE Utf8Encode(_)
\* str.encode("utf-8") of a text given as its code points (below 65536).
Utf8Encode(text) ==
  IF text = <<>> THEN <<>>
  ELSE LET c == Head(text)
           b == IF c < 128 THEN <<c>>
                ELSE IF c < 2048 THEN <<192 + (c \div 64), 128 + (c % 64)>>
                ELSE <<224 + (c \div 4096), 128 + ((c \div 64) % 64),
                       128 + (c % 64)>>
       IN b \o Utf8Encode(Tail(text))

RECURSIVE Utf8Decode(_)
\* bytes.decode("utf-8", errors="replace"), as code points: a one-byte or
\* two-byte sequence decodes to its character, any other byte becomes
\* U+FFFD (65533).  The model's bytes are below 224 or 255, so no longer
\* sequence occurs.
Utf8Decode(bytes) ==
  IF bytes = <<>> THEN <<>>
  ELSE LET b == Head(bytes)
       IN IF b < 128
            THEN <<b>> \o Utf8Decode(Tail(bytes))
          ELSE IF /\ b >= 194
                  /\ b < 224
                  /\ Len(bytes) >= 2
                  /\ bytes[2] >= 128
                  /\ bytes[2] < 192
            THEN <<(b - 192) * 64 + (bytes[2] - 128)>>
                   \o Utf8Decode(Tail(Tail(bytes)))
          ELSE <<65533>> \o Utf8Decode(Tail(bytes))

RECURSIVE Join(_)
\* b"".join(chunks)
Join(chunks) ==
  IF chunks = <<>> THEN <<>> ELSE Head(chunks) \o Join(Tail(chunks))

RECURSIVE SumLen(_)
\* The sum of the lengths of the chunks.
SumLen(chunks) ==
  IF chunks = <<>> THEN 0 ELSE Len(Head(chunks)) + SumLen(Tail(chunks))

(* ---------------------------------------------------------------------- *)
(* TerminalSession._append_to_buffer, statement by statement               *)
(* ---------------------------------------------------------------------- *)
\* self._buffer.append(data)
BufAppend(s, d) == [s EXCEPT !.buffer = Append(@, d)]

\* self._buffer_size += len(data)
BufAddSize(s, d) == [s EXCEPT !.size = @ + Len(d)]

\* The test of the eviction loop.
EvictNeeded(s) == s.size > s.max /\ s.buffer # <<>>

\* Variant: the eviction takes the newest chunk.
BufEvictNewest(s) ==
  [s EXCEPT !.buffer = SubSeq(@, 1, Len(@) - 1),
            !.size = @ - Len(s.buffer[Len(s.buffer)])]

\* old_data = self._buffer.popleft(); self._buffer_size -= len(old_data)
BufEvict(s) ==
  [s EXCEPT !.buffer = Tail(@), !.size = @ - Len(Head(s.buffer))]

\* self._buffer.clear()
BufClear(s) == [s EXCEPT !.buffer = <<>>]

\* self._buffer_size = 0
BufZero(s) == [s EXCEPT !.size = 0]

(* ---------------------------------------------------------------------- *)
(* SerialManager.send_data / read_data, as the terminal layer calls them   *)
(* ---------------------------------------------------------------------- *)
\* send_data(p, data): port-closed when p is not registered, write-failed
\* when the handle's write raises, else the count the handle reports.
SendData(p, data) ==
  IF p \notin DOMAIN ports THEN SerialError("PORT_CLOSED")
  ELSE IF ~IsConnected(ports[p].handle) THEN SerialError("WRITE_FAILED")
  ELSE [kind |-> "ok", n |-> Len(data)]

\* read_data(p): port-closed when p is not registered, an error when the
\* handle's read raises, else the bytes available at the call.
ReadData(p) ==
  IF p \notin DOMAIN ports THEN SerialError("PORT_CLOSED")
  ELSE IF ~IsConnected(ports[p].handle) THEN SerialError("READ_FAILED")
  ELSE [kind |-> "ok", data |-> rx[p]]

(* ---------------------------------------------------------------------- *)
(* The session buffer and its lock                                         *)
(* ---------------------------------------------------------------------- *)
\* Variant: the buffer's with block is entered whoever holds the lock.
BufFreeAlways(s) == TRUE

\* `with self._buffer_lock:` can be entered
BufFree(s) == s.block = "free"

\* `with self._buffer_lock:` entry by w, a client thread or "reader"
BufTake(s, w) == [s EXCEPT !.block = w]

\* `with self._buffer_lock:` exit
BufRelease(s) == [s EXCEPT !.block = "free"]

\* Variant: the loop stops before the chunk just appended is dropped.
EvictStepKeepsLast(s) ==
  IF EvictNeeded(s) /\ Len(s.buffer) > 1 THEN BufEvict(s) ELSE BufRelease(s)

\* One turn of the eviction loop, or the end of the with block.
EvictStep(s) == IF EvictNeeded(s) THEN BufEvict(s) ELSE BufRelease(s)

(* ---------------------------------------------------------------------- *)
(* TerminalManager: the session map and its lock                           *)
(* ---------------------------------------------------------------------- *)
TLockEntryStatusInside ==
  [cs_lock |-> "cs_status", xs_lock |-> "xs_pop", ls_lock |-> "ls_info",
   ts_lock |-> "ts_snapshot"]

TLockEntry ==
  [cs_lock |-> "cs_check", xs_lock |-> "xs_pop", ls_lock |-> "ls_info",
   ts_lock |-> "ts_snapshot"]

SetSess(i, s) == sess' = [sess EXCEPT ![i] = s]

SetLoc(t, r) == loc' = [loc EXCEPT ![t] = r]

\* The call of thread t ends with result r.
SetRet(t, r) == loc' = [loc EXCEPT ![t] = @ @@ [ret |-> r]]

\* `with self._lock:` entry of create_session and close_session
TAcquire(t) ==
  /\ pc[t] \in DOMAIN TLockEntry
  /\ tlock = "free"
  /\ tlock' = t
  /\ Goto(t, TLockEntry[pc[t]])
  /\ UNCHANGED <<loc, sessions, sess, rx, tx>>

\* `with self._lock:` exit, by return or by exception: the call ends.
TRelease(t) ==
  /\ pc[t] = "t_release"
  /\ tlock' = "free"
  /\ Goto(t, "idle")
  /\ SetLoc(t, Idle)
  /\ UNCHANGED <<sessions, sess, rx, tx>>

\* Slots no TerminalSession object has taken yet.
UnusedSessions == {i \in SessionIds : sess[i].port = ""}

\* create_session calls that will still construct their object.
PendingCreates ==
  {t \in Clients : loc[t].op = "create_session" /\ "sid" \notin DOMAIN loc[t]
                   /\ "ret" \notin DOMAIN loc[t]}

NewSession == CHOOSE i \in UnusedSessions : \A j \in UnusedSessions : i <= j

\* TerminalManager.get_session: the lookup under the manager's lock.
GetSession(t, next) ==
  /\ tlock = "free"
  /\ IF loc[t].port \in DOMAIN sessions
       THEN /\ SetLoc(t, loc[t] @@ [sid |-> sessions[loc[t].port]])
            /\ Goto(t, next)
       ELSE /\ SetRet(t, SerialError("SESSION_NOT_FOUND"))
            /\ Goto(t, "done")
  /\ UNCHANGED <<sessions, sess, tlock, rx, tx>>

(* ---------------------------------------------------------------------- *)
(* TerminalManager.create_session                                          *)
(* ---------------------------------------------------------------------- *)
\* Call and line-ending lookup LineEnding[line_ending.upper()].
CreateSessionCall(t, p, le, echo, n) ==
  /\ pc[t] = "idle"
  /\ Cardinality(UnusedSessions) > Cardinality(PendingCreates)
  /\ LET call == [op |-> "create_session", port |-> p, echo |-> echo, max |-> n]
     IN IF Upper[le] \in DOMAIN LineEnding
          THEN /\ SetLoc(t, call @@ [line_ending |-> Upper[le]])
               /\ Goto(t, "cs_status")
          ELSE /\ SetLoc(t, call @@ [ret |-> SerialError("INVALID_LINE_ENDING")])
               /\ Goto(t, "done")
  /\ UNCHANGED tvars

\* manager.get_status(port): any exception becomes port-not-open.
CreateSessionStatus(t) ==
  /\ pc[t] = "cs_status"
  /\ lock = "free"
  /\ IF loc[t].port \in DOMAIN ports /\ ~ProbeRaises(ports[loc[t].port].handle)
       THEN /\ Goto(t, "cs_lock")
            /\ UNCHANGED loc
       ELSE /\ SetRet(t, SerialError("PORT_NOT_OPEN"))
            /\ Goto(t, "done")
  /\ UNCHANGED tvars

\* Variant: the map is not consulted before the session is built.
CreateSessionCheckSkips(t) ==
  /\ pc[t] = "cs_check"
  /\ SetLoc(t, loc[t] @@ [sid |-> NewSession])
  /\ SetSess(NewSession,
             TerminalSession(loc[t].port, loc[t].line_ending,
                             loc[t].echo, loc[t].max))
  /\ Goto(t, "cs_start")
  /\ UNCHANGED <<sessions, tlock, rx, tx>>

\* `if port in self._sessions: raise`, else TerminalSession(...)
CreateSessionCheck(t) ==
  /\ pc[t] = "cs_check"
  /\ IF loc[t].port \in DOMAIN sessions
       THEN /\ SetRet(t, SerialError("SESSION_EXISTS"))
            /\ Goto(t, "t_release")
            /\ UNCHANGED sess
       ELSE /\ SetLoc(t, loc[t] @@ [sid |-> NewSession])
            /\ SetSess(NewSession,
                       TerminalSession(loc[t].port, loc[t].line_ending,
                                       loc[t].echo, loc[t].max))
            /\ Goto(t, "cs_start")
  /\ UNCHANGED <<sessions, tlock, rx, tx>>

\* session.start(): the flag, the stop event, the reader thread.
CreateSessionStart(t) ==
  /\ pc[t] = "cs_start"
  /\ LET s == sess[loc[t].sid]
     IN IF s.running
          THEN UNCHANGED sess
          ELSE SetSess(loc[t].sid,
                       [s EXCEPT !.running = TRUE, !.stop = FALSE,
                                 !.rpc = "check"])
  /\ Goto(t, "cs_insert")
  /\ UNCHANGED <<loc, sessions, tlock, rx, tx>>

\* self._sessions[port] = session
CreateSessionInsert(t) ==
  /\ pc[t] = "cs_insert"
  /\ sessions' = DictSet(sessions, loc[t].port, loc[t].sid)
  /\ Goto(t, "cs_info")
  /\ UNCHANGED <<loc, sess, tlock, rx, tx>>

\* TerminalSession.get_info: buffer_length is read under the buffer lock.
SessionInfo(s) ==
  [kind |-> "info", session_id |-> s.port, port |-> s.port,
   line_ending |-> s.line_ending, local_echo |-> s.local_echo,
   max |-> s.max, buffer_size |-> s.size, is_active |-> s.running]

\* return session.get_info()
CreateSessionInfo(t) ==
  /\ pc[t] = "cs_info"
  /\ BufFree(sess[loc[t].sid])
  /\ SetRet(t, SessionInfo(sess[loc[t].sid]))
  /\ Goto(t, "t_release")
  /\ UNCHANGED tvars

(* ---------------------------------------------------------------------- *)
(* TerminalManager.close_session                                           *)
(* ---------------------------------------------------------------------- *)
CloseSessionCall(t, p) ==
  /\ pc[t] = "idle"
  /\ SetLoc(t, [op |-> "close_session", port |-> p])
  /\ Goto(t, "xs_lock")
  /\ UNCHANGED tvars

\* Variant: the session is stopped but its entry stays in the map.
CloseSessionPopKeeps(t) ==
  /\ pc[t] = "xs_pop"
  /\ IF loc[t].port \in DOMAIN sessions
       THEN /\ SetLoc(t, loc[t] @@ [sid |-> sessions[loc[t].port]])
            /\ Goto(t, "xs_stop")
       ELSE /\ SetRet(t, SerialError("SESSION_NOT_FOUND"))
            /\ Goto(t, "t_release")
  /\ UNCHANGED <<sessions, sess, tlock, rx, tx>>

\* The lookup and self._sessions.pop(session_id)
CloseSessionPop(t) ==
  /\ pc[t] = "xs_pop"
  /\ IF loc[t].port \in DOMAIN sessions
       THEN /\ SetLoc(t, loc[t] @@ [sid |-> sessions[loc[t].port]])
            /\ sessions' = DictPop(sessions, loc[t].port)
            /\ Goto(t, "xs_stop")
       ELSE /\ SetRet(t, SerialError("SESSION_NOT_FOUND"))
            /\ Goto(t, "t_release")
            /\ UNCHANGED sessions
  /\ UNCHANGED <<sess, tlock, rx, tx>>

\* session.stop(): `if not self._running: return`, else the flag
CloseSessionStop(t) ==
  /\ pc[t] = "xs_stop"
  /\ LET s == sess[loc[t].sid]
     IN IF s.running
          THEN /\ SetSess(loc[t].sid, [s EXCEPT !.running = FALSE])
               /\ Goto(t, "xs_event")
               /\ UNCHANGED loc
          ELSE /\ SetRet(t, [kind |-> "ok"])
               /\ Goto(t, "t_release")
               /\ UNCHANGED sess
  /\ UNCHANGED <<sessions, tlock, rx, tx>>

\* self._stop_event.set()
CloseSessionEvent(t) ==
  /\ pc[t] = "xs_event"
  /\ SetSess(loc[t].sid, [sess[loc[t].sid] EXCEPT !.stop = TRUE])
  /\ Goto(t, "xs_join")
  /\ UNCHANGED <<loc, sessions, tlock, rx, tx>>

\* self._thread.join(timeout=2.0): it returns when the reader has exited
\* or when the two seconds are over, whichever comes first.
CloseSessionJoin(t) ==
  /\ pc[t] = "xs_join"
  /\ SetRet(t, [kind |-> "ok"])
  /\ Goto(t, "t_release")
  /\ UNCHANGED tvars

(* ---------------------------------------------------------------------- *)
(* TerminalManager.send_command / TerminalSession.send_command             *)
(* ---------------------------------------------------------------------- *)
SendCommandCall(t, p, text, add) ==
  /\ pc[t] = "idle"
  /\ SetLoc(t, [op |-> "send_command", port |-> p, text |-> text, add |-> add])
  /\ Goto(t, "sc_get")
  /\ UNCHANGED tvars

SendCommandGet(t) == pc[t] = "sc_get" /\ GetSession(t, "sc_active")

\* Variant: the line ending is appended whatever add_line_ending says.
RawDataAlways(text, add, le) == Utf8Encode(text \o LineEnding[le])

\* data = command (+ line_ending.value); raw_data = data.encode("utf-8")
RawData(text, add, le) ==
  Utf8Encode(IF add THEN text \o LineEnding[le] ELSE text)

\* `if not session.is_active: raise`, then the bytes to send
SendCommandActive(t) ==
  /\ pc[t] = "sc_active"
  /\ LET s == sess[loc[t].sid]
     IN IF ~s.running
          THEN /\ SetRet(t, SerialError("SESSION_CLOSED"))
               /\ Goto(t, "done")
          ELSE /\ SetLoc(t, loc[t] @@
                        [raw |-> RawData(loc[t].text, loc[t].add, s.line_ending)])
               /\ Goto(t, "sc_send")
  /\ UNCHANGED tvars

\* Variant: a failed write is not reported; the echo is appended and the
\* call returns 0.
SendCommandSendEchoesAnyway(t) ==
  /\ pc[t] = "sc_send"
  /\ lock = "free"
  /\ LET s == sess[loc[t].sid]
         r == SendData(s.port, loc[t].raw)
     IN /\ IF r.kind = "error"
             THEN /\ SetLoc(t, loc[t] @@ [n |-> 0])
                  /\ UNCHANGED tx
             ELSE /\ tx' = [tx EXCEPT ![s.port] = loc[t].raw]
                  /\ SetLoc(t, loc[t] @@ [n |-> r.n])
        /\ Goto(t, "sc_echo")
  /\ UNCHANGED <<sessions, sess, tlock, rx>>

\* bytes_written = manager.send_data(self.port, raw_data); an exception
\* becomes send-command-failed; `if self.config.local_echo:`
SendCommandSend(t) ==
  /\ pc[t] = "sc_send"
  /\ lock = "free"
  /\ LET s == sess[loc[t].sid]
         r == SendData(s.port, loc[t].raw)
     IN IF r.kind = "error"
          THEN /\ SetRet(t, SerialError("SEND_COMMAND_FAILED"))
               /\ Goto(t, "done")
               /\ UNCHANGED tx
          ELSE /\ tx' = [tx EXCEPT ![s.port] = loc[t].raw]
               /\ IF s.local_echo
                    THEN /\ SetLoc(t, loc[t] @@ [n |-> r.n])
                         /\ Goto(t, "sc_echo")
                    ELSE /\ SetRet(t, [kind |-> "sent", bytes_written |-> r.n])
                         /\ Goto(t, "done")
  /\ UNCHANGED <<sessions, sess, tlock, rx>>

\* self._append_to_buffer(raw_data): the with block is entered
SendCommandEcho(t) ==
  /\ pc[t] = "sc_echo"
  /\ BufFree(sess[loc[t].sid])
  /\ SetSess(loc[t].sid, BufTake(sess[loc[t].sid], t))
  /\ Goto(t, "sc_push")
  /\ UNCHANGED <<loc, sessions, tlock, rx, tx>>

SendCommandPush(t) ==
  /\ pc[t] = "sc_push"
  /\ SetSess(loc[t].sid, BufAppend(sess[loc[t].sid], loc[t].raw))
  /\ Goto(t, "sc_add")
  /\ UNCHANGED <<loc, sessions, tlock, rx, tx>>

SendCommandAdd(t) ==
  /\ pc[t] = "sc_add"
  /\ SetSess(loc[t].sid, BufAddSize(sess[loc[t].sid], loc[t].raw))
  /\ Goto(t, "sc_evict")
  /\ UNCHANGED <<loc, sessions, tlock, rx, tx>>

\* The eviction loop; when it ends the call returns bytes_written.
SendCommandEvict(t) ==
  /\ pc[t] = "sc_evict"
  /\ LET s == sess[loc[t].sid]
     IN /\ SetSess(loc[t].sid, EvictStep(s))
        /\ IF EvictStep(s).block = "free"
             THEN /\ SetRet(t, [kind |-> "sent", bytes_written |-> loc[t].n])
                  /\ Goto(t, "done")
             ELSE UNCHANGED <<pc, loc>>
  /\ UNCHANGED <<sessions, tlock, rx, tx>>

(* ---------------------------------------------------------------------- *)
(* TerminalManager.read_output / TerminalSession.read_output               *)
(* ---------------------------------------------------------------------- *)
ReadOutputCall(t, p, clear) ==
  /\ pc[t] = "idle"
  /\ SetLoc(t, [op |-> "read_output", port |-> p, clear |-> clear])
  /\ Goto(t, "ro_get")
  /\ UNCHANGED tvars

ReadOutputGet(t) == pc[t] = "ro_get" /\ GetSession(t, "ro_lock")

ReadOutputLock(t) ==
  /\ pc[t] = "ro_lock"
  /\ BufFree(sess[loc[t].sid])
  /\ SetSess(loc[t].sid, BufTake(sess[loc[t].sid], t))
  /\ Goto(t, "ro_join")
  /\ UNCHANGED <<loc, sessions, tlock, rx, tx>>

\* Variant: the bytes are handed over undecoded.
OutputResultRaw(data) == [kind |-> "output", data |-> data, bytes_read |-> Len(data)]

\* The manager's result: the text data decodes to, and the byte count.
OutputResult(data) ==
  [kind |-> "output", data |-> Utf8Decode(data), bytes_read |-> Len(data)]

\* Variant: the buffer lock is given up between the join and the clear.
ReadOutputJoinUnlocks(t) ==
  /\ pc[t] = "ro_join"
  /\ LET s == sess[loc[t].sid]
     IN IF s.buffer = <<>> \/ ~loc[t].clear
          THEN /\ SetSess(loc[t].sid, BufRelease(s))
               /\ SetRet(t, OutputResult(Join(s.buffer)))
               /\ Goto(t, "done")
          ELSE /\ SetLoc(t, loc[t] @@ [result |-> Join(s.buffer)])
               /\ Goto(t, "ro_clear")
               /\ SetSess(loc[t].sid, BufRelease(s))
  /\ UNCHANGED <<sessions, tlock, rx, tx>>

\* `if not self._buffer: return b""`; result = b"".join(self._buffer);
\* without clear the with block ends here.
ReadOutputJoin(t) ==
  /\ pc[t] = "ro_join"
  /\ LET s == sess[loc[t].sid]
     IN IF s.buffer = <<>> \/ ~loc[t].clear
          THEN /\ SetSess(loc[t].sid, BufRelease(s))
               /\ SetRet(t, OutputResult(Join(s.buffer)))
               /\ Goto(t, "done")
          ELSE /\ SetLoc(t, loc[t] @@ [result |-> Join(s.buffer)])
               /\ Goto(t, "ro_clear")
               /\ UNCHANGED sess
  /\ UNCHANGED <<sessions, tlock, rx, tx>>

\* self._buffer.clear()
ReadOutputClear(t) ==
  /\ pc[t] = "ro_clear"
  /\ SetSess(loc[t].sid, BufClear(sess[loc[t].sid]))
  /\ Goto(t, "ro_zero")
  /\ UNCHANGED <<loc, sessions, tlock, rx, tx>>

\* self._buffer_size = 0, the with block ends, the result is returned
ReadOutputZero(t) ==
  /\ pc[t] = "ro_zero"
  /\ SetSess(loc[t].sid, BufRelease(BufZero(sess[loc[t].sid])))
  /\ SetRet(t, OutputResult(loc[t].result))
  /\ Goto(t, "done")
  /\ UNCHANGED <<sessions, tlock, rx, tx>>

(* ---------------------------------------------------------------------- *)
(* TerminalManager.clear_buffer / TerminalSession.clear_buffer             *)
(* ---------------------------------------------------------------------- *)
ClearBufferCall(t, p) ==
  /\ pc[t] = "idle"
  /\ SetLoc(t, [op |-> "clear_buffer", port |-> p])
  /\ Goto(t, "cb_get")
  /\ UNCHANGED tvars

ClearBufferGet(t) == pc[t] = "cb_get" /\ GetSession(t, "cb_lock")

ClearBufferLock(t) ==
  /\ pc[t] = "cb_lock"
  /\ BufFree(sess[loc[t].sid])
  /\ SetSess(loc[t].sid, BufTake(sess[loc[t].sid], t))
  /\ Goto(t, "cb_clear")
  /\ UNCHANGED <<loc, sessions, tlock, rx, tx>>

ClearBufferClear(t) ==
  /\ pc[t] = "cb_clear"
  /\ SetSess(loc[t].sid, BufClear(sess[loc[t].sid]))
  /\ Goto(t, "cb_zero")
  /\ UNCHANGED <<loc, sessions, tlock, rx, tx>>

ClearBufferZero(t) ==
  /\ pc[t] = "cb_zero"
  /\ SetSess(loc[t].sid, BufRelease(BufZero(sess[loc[t].sid])))
  /\ SetRet(t, [kind |-> "ok"])
  /\ Goto(t, "done")
  /\ UNCHANGED <<sessions, tlock, rx, tx>>

(* ---------------------------------------------------------------------- *)
(* TerminalManager.get_session_info                                        *)
(* ---------------------------------------------------------------------- *)
GetSessionInfoCall(t, p) ==
  /\ pc[t] = "idle"
  /\ SetLoc(t, [op |-> "get_session_info", port |-> p])
  /\ Goto(t, "gi_get")
  /\ UNCHANGED tvars

GetSessionInfoGet(t) == pc[t] = "gi_get" /\ GetSession(t, "gi_info")

\* return session.get_info().to_dict()
GetSessionInfoInfo(t) ==
  /\ pc[t] = "gi_info"
  /\ BufFree(sess[loc[t].sid])
  /\ SetRet(t, SessionInfo(sess[loc[t].sid]))
  /\ Goto(t, "done")
  /\ UNCHANGED tvars

(* ---------------------------------------------------------------------- *)
(* TerminalManager.list_sessions                                           *)
(* ---------------------------------------------------------------------- *)
ListSessionsCall(t) ==
  /\ pc[t] = "idle"
  /\ SetLoc(t, [op |-> "list_sessions"])
  /\ Goto(t, "ls_lock")
  /\ UNCHANGED tvars

\* [session.get_info().to_dict() for session in self._sessions.values()],
\* under the manager's lock; each get_info reads buffer_length under the
\* session's buffer lock.  The map holds at most one session per port id.
ListSessionsInfo(t) ==
  /\ pc[t] = "ls_info"
  /\ \A p \in DOMAIN sessions : BufFree(sess[sessions[p]])
  /\ SetRet(t, [kind |-> "sessions",
                list |-> {SessionInfo(sess[sessions[p]]) : p \in DOMAIN sessions}])
  /\ Goto(t, "t_release")
  /\ UNCHANGED tvars

(* ---------------------------------------------------------------------- *)
(* SerialManager.send_data / read_data, as the data tools call them        *)
(* ---------------------------------------------------------------------- *)
\* The registry lock is held for the lookup of the entry only; the write
\* and the read run on the handle found.
SendDataCall(t, p, data) ==
  /\ pc[t] = "idle"
  /\ SetLoc(t, [op |-> "send_data", port |-> p, data |-> data])
  /\ Goto(t, "sd_send")
  /\ UNCHANGED <<svars, tvars>>

\* Variant: a write that raised is reported as zero bytes written.
SendDataSendHidesFailure(t) ==
  /\ pc[t] = "sd_send"
  /\ lock = "free"
  /\ LET r == SendData(loc[t].port, loc[t].data)
     IN /\ SetRet(t, IF r.kind = "error" /\ r.code = "WRITE_FAILED"
                      THEN [kind |-> "ok", n |-> 0]
                      ELSE r)
        /\ tx' = IF r.kind = "ok" THEN [tx EXCEPT ![loc[t].port] = loc[t].data]
                 ELSE tx
  /\ Goto(t, "done")
  /\ UNCHANGED <<svars, sessions, sess, tlock, rx>>

\* The lookup and serial.write(data): the count, or the typed error.
SendDataSend(t) ==
  /\ pc[t] = "sd_send"
  /\ lock = "free"
  /\ LET r == SendData(loc[t].port, loc[t].data)
     IN /\ SetRet(t, r)
        /\ tx' = IF r.kind = "ok" THEN [tx EXCEPT ![loc[t].port] = loc[t].data]
                 ELSE tx
  /\ Goto(t, "done")
  /\ UNCHANGED <<svars, sessions, sess, tlock, rx>>

\* timeout_ms is <<>> when the argument is omitted, <<ms>> when given.
ReadDataCall(t, p, tm) ==
  /\ pc[t] = "idle"
  /\ SetLoc(t, [op |-> "read_data", port |-> p, timeout_ms |-> tm])
  /\ Goto(t, "rd_lookup")
  /\ UNCHANGED <<svars, tvars>>

\* The lookup under the registry lock: port-closed, or the entry's handle
\* and configuration.
ReadDataLookup(t) ==
  /\ pc[t] = "rd_lookup"
  /\ lock = "free"
  /\ LET p == loc[t].port
     IN IF p \notin DOMAIN ports
          THEN /\ SetRet(t, SerialError("PORT_CLOSED"))
               /\ Goto(t, "done")
          ELSE /\ SetLoc(t, loc[t] @@ [h |-> ports[p].handle,
                                       config |-> ports[p].config])
               /\ Goto(t, IF loc[t].timeout_ms = <<>> THEN "rd_read"
                          ELSE "rd_override")
  /\ UNCHANGED <<svars, tvars>>

\* The handle h takes the read timeout ms, if it is still a live object.
SetTimeout(hs, h, ms) ==
  IF "timeout" \in DOMAIN hs[h].settings
    THEN [hs EXCEPT ![h].settings.timeout = <<ms, 1000>>]
    ELSE hs

\* serial.timeout = timeout_ms / 1000.0
ReadDataOverride(t) ==
  /\ pc[t] = "rd_override"
  /\ handles' = SetTimeout(handles, loc[t].h, loc[t].timeout_ms[1])
  /\ Goto(t, "rd_read")
  /\ UNCHANGED <<ports, order, deviceOk, lock, sup, loc, tvars>>

\* serial.read(serial.in_waiting): the bytes available, or the error of a
\* read that raised.
ReadDataRead(t) ==
  /\ pc[t] = "rd_read"
  /\ LET p == loc[t].port
         r == IF IsConnected(loc[t].h)
                THEN [kind |-> "ok", data |-> rx[p]]
                ELSE SerialError("READ_FAILED")
     IN /\ rx' = IF r.kind = "ok" THEN [rx EXCEPT ![p] = <<>>] ELSE rx
        /\ IF loc[t].timeout_ms = <<>>
             THEN SetRet(t, r) /\ Goto(t, "done")
             ELSE SetLoc(t, loc[t] @@ [result |-> r]) /\ Goto(t, "rd_restore")
  /\ UNCHANGED <<svars, sessions, sess, tlock, tx>>

\* The configuration of the ManagedPort object thread t looked up.
Configured(t) ==
  IF loc[t].port \in DOMAIN ports /\ ports[loc[t].port].handle = loc[t].h
    THEN ports[loc[t].port].config
    ELSE loc[t].config

\* Variant: the timeout is put back only after a read that succeeded.
RestoredOnSuccess(hs, h, c, r) ==
  IF r.kind = "ok" THEN SetTimeout(hs, h, c.read_timeout_ms) ELSE hs

\* finally: serial.timeout = the configured read timeout, whatever the
\* outcome r of the read.
Restored(hs, h, c, r) == SetTimeout(hs, h, c.read_timeout_ms)

\* The timeout is put back; then the bytes are returned or the error
\* raised.
ReadDataRestore(t) ==
  /\ pc[t] = "rd_restore"
  /\ handles' = Restored(handles, loc[t].h, Configured(t), loc[t].result)
  /\ SetRet(t, loc[t].result)
  /\ Goto(t, "done")
  /\ UNCHANGED <<ports, order, deviceOk, lock, sup, tvars>>

(* ---------------------------------------------------------------------- *)
(* TerminalSession._read_loop, the reader thread of session object i       *)
(* ---------------------------------------------------------------------- *)
\* while not self._stop_event.is_set():
ReaderCheck(i) ==
  /\ sess[i].rpc = "check"
  /\ SetSess(i, [sess[i] EXCEPT !.rpc = IF sess[i].stop THEN "exit" ELSE "read"])
  /\ UNCHANGED <<pc, loc, sessions, tlock, rx, tx>>

\* Variant: after a read that raised the loop waits and tries again.
ReaderReadRetries(i) ==
  /\ sess[i].rpc = "read"
  /\ lock = "free"
  /\ LET s == sess[i]
         r == ReadData(s.port)
     IN IF r.kind = "error"
          THEN /\ SetSess(i, [s EXCEPT !.rpc = "wait"])
               /\ UNCHANGED rx
          ELSE /\ SetSess(i, [s EXCEPT !.data = r.data,
                                       !.rpc = IF r.data = <<>> THEN "wait"
                                               ELSE "ap_lock"])
               /\ rx' = [rx EXCEPT ![s.port] = <<>>]
  /\ UNCHANGED <<pc, loc, sessions, tlock, tx>>

\* Variant: a read that raised ends the loop and leaves the flag up.
ReaderReadKeepsFlag(i) ==
  /\ sess[i].rpc = "read"
  /\ lock = "free"
  /\ LET s == sess[i]
         r == ReadData(s.port)
     IN IF r.kind = "error"
          THEN /\ SetSess(i, [s EXCEPT !.rpc = "exit"])
               /\ UNCHANGED rx
          ELSE /\ SetSess(i, [s EXCEPT !.data = r.data,
                                       !.rpc = IF r.data = <<>> THEN "wait"
                                               ELSE "ap_lock"])
               /\ rx' = [rx EXCEPT ![s.port] = <<>>]
  /\ UNCHANGED <<pc, loc, sessions, tlock, tx>>

\* data = manager.read_data(self.port, timeout_ms=50): an exception ends
\* the loop and clears the flag; data, when there is some, is appended.
ReaderRead(i) ==
  /\ sess[i].rpc = "read"
  /\ lock = "free"
  /\ LET s == sess[i]
         r == ReadData(s.port)
     IN IF r.kind = "error"
          THEN /\ SetSess(i, [s EXCEPT !.running = FALSE, !.rpc = "exit"])
               /\ UNCHANGED rx
          ELSE /\ SetSess(i, [s EXCEPT !.data = r.data,
                                       !.rpc = IF r.data = <<>> THEN "wait"
                                               ELSE "ap_lock"])
               /\ rx' = [rx EXCEPT ![s.port] = <<>>]
  /\ UNCHANGED <<pc, loc, sessions, tlock, tx>>

\* The read timeout the reader loop passes to read_data, in ms.
READ_TIMEOUT_MS == 50

\* The reader's read with what read_data(port, timeout_ms=50) does to the
\* handle: the timeout is overridden for the read and put back after it.
ReaderReadTimed(i) ==
  /\ ReaderRead(i)
  /\ LET p == sess[i].port
     IN handles' =
          IF p \in DOMAIN ports
            THEN Restored(SetTimeout(handles, ports[p].handle, READ_TIMEOUT_MS),
                          ports[p].handle, ports[p].config, ReadData(p))
            ELSE handles
  /\ UNCHANGED <<ports, order, deviceOk, lock, sup, cfg>>

\* self._append_to_buffer(data): the with block is entered
ReaderAppendLock(i) ==
  /\ sess[i].rpc = "ap_lock"
  /\ BufFree(sess[i])
  /\ SetSess(i, [BufTake(sess[i], "reader") EXCEPT !.rpc = "ap_push"])
  /\ UNCHANGED <<pc, loc, sessions, tlock, rx, tx>>

ReaderAppendPush(i) ==
  /\ sess[i].rpc = "ap_push"
  /\ SetSess(i, [BufAppend(sess[i], sess[i].data) EXCEPT !.rpc = "ap_add"])
  /\ UNCHANGED <<pc, loc, sessions, tlock, rx, tx>>

ReaderAppendAdd(i) ==
  /\ sess[i].rpc = "ap_add"
  /\ SetSess(i, [BufAddSize(sess[i], sess[i].data) EXCEPT !.rpc = "ap_evict"])
  /\ UNCHANGED <<pc, loc, sessions, tlock, rx, tx>>

\* The eviction loop; when it ends the reader goes to its wait.
ReaderAppendEvict(i) ==
  /\ sess[i].rpc = "ap_evict"
  /\ LET s == EvictStep(sess[i])
     IN SetSess(i, IF s.block = "free"
                     THEN [s EXCEPT !.rpc = "wait", !.data = <<>>]
                     ELSE s)
  /\ UNCHANGED <<pc, loc, sessions, tlock, rx, tx>>

\* self._stop_event.wait(READ_INTERVAL)
ReaderWait(i) ==
  /\ sess[i].rpc = "wait"
  /\ SetSess(i, [sess[i] EXCEPT !.rpc = "check"])
  /\ UNCHANGED <<pc, loc, sessions, tlock, rx, tx>>

ReaderStep(i) ==
  \/ ReaderCheck(i)
  \/ ReaderRead(i)
  \/ ReaderAppendLock(i)
  \/ ReaderAppendPush(i)
  \/ ReaderAppendAdd(i)
  \/ ReaderAppendEvict(i)
  \/ ReaderWait(i)

\* The device sends a chunk: the bytes wait in the handle's input queue.
DeviceSends(p, chunk) ==
  /\ p \in DOMAIN ports
  /\ IsConnected(ports[p].handle)
  /\ rx[p] = <<>>
  /\ rx' = [rx EXCEPT ![p] = chunk]
  /\ UNCHANGED <<pc, loc, sessions, sess, tlock, tx>>

(* ---------------------------------------------------------------------- *)
(* Specification: one client thread, the reconnect thread, the device      *)
(* ---------------------------------------------------------------------- *)
ClientStep(t) ==
  \/ \E p \in PortIds, c \in OpenCalls : OpenPortCall(t, p, c[1], c[2])
  \/ OpenPortCheck(t)
  \/ OpenPortCreate(t)
  \/ OpenPortInsert(t)
  \/ \E p \in OpenablePorts : ClosePortCall(t, p)
  \/ ClosePortPop(t)
  \/ ClosePortSerial(t)
  \/ \E p \in OpenablePorts, f \in SetArgSet : SetConfigCall(t, p, f)
  \/ SetConfigLookup(t)
  \/ SetConfigApply(t)
  \/ SetConfigStore(t)
  \/ \E p \in OpenablePorts : GetStatusCall(t, p)
  \/ GetStatusRead(t)
  \/ Return(t)

SupStep ==
  \/ SupExit
  \/ SupWake
  \/ SupScan
  \/ SupNext
  \/ SupCreate
  \/ SupSwapInstall
  \/ SupSwapDiscard
  \/ SupFail

Next ==
  \/ ClientStep("c1") /\ UNCHANGED tvars
  \/ SupStep /\ UNCHANGED tvars
  \/ \E t \in Threads : AcquireLock(t) /\ UNCHANGED tvars
  \/ \E t \in Threads : ReleaseLock(t) /\ UNCHANGED tvars
  \/ \E p \in OpenablePorts : DeviceLost(p) /\ UNCHANGED tvars
  \/ \E p \in OpenablePorts : DeviceBack(p) /\ UNCHANGED tvars

Spec == Init /\ [][Next]_vars

(* ---------------------------------------------------------------------- *)
(* Specification: two client threads calling open_port, close_port and     *)
(* set_config with valid arguments, the reconnect thread, the device       *)
(* ---------------------------------------------------------------------- *)
ValidOpenCalls == {c \in OpenCalls : InvalidField(c[1]) = ""}

ValidSetArgSet == {[baudrate |-> 19200, read_timeout_ms |-> 0]}

StructuralStep(t) ==
  \/ \E p \in OpenablePorts, c \in ValidOpenCalls : OpenPortCall(t, p, c[1], c[2])
  \/ OpenPortCheck(t)
  \/ OpenPortCreate(t)
  \/ OpenPortInsert(t)
  \/ \E p \in OpenablePorts : ClosePortCall(t, p)
  \/ ClosePortPop(t)
  \/ ClosePortSerial(t)
  \/ \E p \in OpenablePorts, f \in ValidSetArgSet : SetConfigCall(t, p, f)
  \/ SetConfigLookup(t)
  \/ SetConfigApply(t)
  \/ SetConfigStore(t)

NextMT ==
  \/ \E t \in Clients : StructuralStep(t) /\ UNCHANGED tvars
  \/ SupStep /\ UNCHANGED tvars
  \/ \E t \in Threads : AcquireLock(t) /\ UNCHANGED tvars
  \/ \E t \in Threads : ReleaseLock(t) /\ UNCHANGED tvars
  \/ \E p \in OpenablePorts : DeviceLost(p) /\ UNCHANGED tvars
  \/ \E p \in OpenablePorts : DeviceBack(p) /\ UNCHANGED tvars

SpecMT == Init /\ [][NextMT]_vars

(* ---------------------------------------------------------------------- *)
(* Specification: one thread opens a port once, with arguments drawn from  *)
(* every supported value and some unsupported ones, and reads its status   *)
(* ---------------------------------------------------------------------- *)
ArgValues ==
  [baudrate : SUPPORTED_BAUDRATES \cup {0, 12345},
   bytesize : SUPPORTED_BYTESIZES \cup {4, 9},
   parity : {"N", "E", "O", "M", "S", "X"},
   stopbits : {10, 15, 20, 30},
   flow_control : {"none", "hardware", "software", "rtscts"},
   read_timeout_ms : {-1, 0, 60000, 60001},
   write_timeout_ms : {-1, 0, 60000, 60001}]

InitV ==
  /\ TermInit
  /\ CfgInit
  /\ ports = [q \in {} |-> Idle]
  /\ order = <<>>
  /\ handles = [h \in HandleIds |-> NoSerial]
  /\ deviceOk \in [PortIds -> BOOLEAN]
  /\ \A p \in Blacklisted : deviceOk[p]
  /\ lock = "free"
  /\ pc = [t \in Threads |-> IF t = Sup THEN "sup_sleep" ELSE "idle"]
  /\ loc = [t \in Clients |-> Idle]
  /\ sup = [queue |-> <<>>, cur |-> NoAttempt, newh |-> 0, running |-> TRUE]

NextV ==
  \/ /\ DOMAIN ports = {}
     /\ pc["c1"] = "idle"
     /\ \E p \in PortIds, a \in ArgValues : OpenPortCall("c1", p, a, TRUE)
     /\ UNCHANGED tvars
  \/ AcquireLock("c1") /\ UNCHANGED tvars
  \/ OpenPortCheck("c1") /\ UNCHANGED tvars
  \/ OpenPortCreate("c1") /\ UNCHANGED tvars
  \/ OpenPortInsert("c1") /\ UNCHANGED tvars
  \/ ReleaseLock("c1") /\ UNCHANGED tvars
  \/ Return("c1") /\ UNCHANGED tvars
  \/ \E p \in OpenablePorts : GetStatusCall("c1", p) /\ UNCHANGED tvars
  \/ GetStatusRead("c1") /\ UNCHANGED tvars
  \/ ListPorts("c1") /\ UNCHANGED tvars

SpecV == InitV /\ [][NextV]_vars

(* ---------------------------------------------------------------------- *)
(* Specification: two client threads creating and closing sessions, the    *)
(* reader threads, one of the clients opening and closing the port, the    *)
(* device                                                                  *)
(* ---------------------------------------------------------------------- *)
\* Arguments the clients pass to create_session.
LineEndingArgs == {"crlf", "INVALID"}

\* The session calls of a client thread.
SessionStep(t) ==
  \/ \E p \in OpenablePorts, le \in LineEndingArgs :
       CreateSessionCall(t, p, le, FALSE, 2)
  \/ CreateSessionStatus(t)
  \/ CreateSessionCheck(t)
  \/ CreateSessionStart(t)
  \/ CreateSessionInsert(t)
  \/ CreateSessionInfo(t)
  \/ \E p \in OpenablePorts : CloseSessionCall(t, p)
  \/ CloseSessionPop(t)
  \/ CloseSessionStop(t)
  \/ CloseSessionEvent(t)
  \/ CloseSessionJoin(t)
  \/ TAcquire(t)
  \/ TRelease(t)

\* open_port and close_port; closing the handle discards its input queue.
PortStep(t) ==
  \/ \E p \in OpenablePorts : OpenPortCall(t, p, DefaultArgs, FALSE) /\ UNCHANGED tvars
  \/ OpenPortCheck(t) /\ UNCHANGED tvars
  \/ OpenPortCreate(t) /\ UNCHANGED tvars
  \/ OpenPortInsert(t) /\ UNCHANGED tvars
  \/ \E p \in OpenablePorts : ClosePortCall(t, p) /\ UNCHANGED tvars
  \/ ClosePortPop(t) /\ UNCHANGED tvars
  \/ /\ ClosePortSerial(t)
     /\ rx' = [rx EXCEPT ![loc[t].port] = <<>>]
     /\ UNCHANGED <<sessions, sess, tlock, tx, cfg>>
  \/ AcquireLock(t) /\ UNCHANGED tvars
  \/ ReleaseLock(t) /\ UNCHANGED tvars

NextS ==
  \/ \E t \in Clients : SessionStep(t) /\ UNCHANGED svars
  \/ \E t \in Clients : Return(t) /\ UNCHANGED tvars
  \/ \E i \in SessionIds : ReaderCheck(i) /\ UNCHANGED svars
  \/ \E i \in SessionIds : ReaderRead(i) /\ UNCHANGED svars
  \/ \E i \in SessionIds : ReaderWait(i) /\ UNCHANGED svars
  \/ PortStep("c1")
  \/ \E p \in OpenablePorts : DeviceLost(p) /\ UNCHANGED tvars
  \/ \E p \in OpenablePorts : DeviceBack(p) /\ UNCHANGED tvars

SpecS == Init /\ [][NextS]_vars

(* ---------------------------------------------------------------------- *)
(* Steps shared by the specifications of the data path                     *)
(* ---------------------------------------------------------------------- *)
\* open_port with the default arguments
OpenStep(t) ==
  \/ \E p \in OpenablePorts : OpenPortCall(t, p, DefaultArgs, FALSE)
  \/ OpenPortCheck(t)
  \/ OpenPortCreate(t)
  \/ OpenPortInsert(t)
  \/ AcquireLock(t)
  \/ ReleaseLock(t)

\* create_session, past its call
CreateStep(t) ==
  \/ CreateSessionStatus(t)
  \/ CreateSessionCheck(t)
  \/ CreateSessionStart(t)
  \/ CreateSessionInsert(t)
  \/ CreateSessionInfo(t)
  \/ TAcquire(t)
  \/ TRelease(t)

\* send_command, past its call
SendStep(t) ==
  \/ SendCommandGet(t)
  \/ SendCommandActive(t)
  \/ SendCommandSend(t)
  \/ SendCommandEcho(t)
  \/ SendCommandPush(t)
  \/ SendCommandAdd(t)
  \/ SendCommandEvict(t)

\* read_output and clear_buffer
ReceiverStep(t) ==
  \/ \E p \in OpenablePorts, c \in BOOLEAN : ReadOutputCall(t, p, c)
  \/ ReadOutputGet(t)
  \/ ReadOutputLock(t)
  \/ ReadOutputJoin(t)
  \/ ReadOutputClear(t)
  \/ ReadOutputZero(t)
  \/ \E p \in OpenablePorts : ClearBufferCall(t, p)
  \/ ClearBufferGet(t)
  \/ ClearBufferLock(t)
  \/ ClearBufferClear(t)
  \/ ClearBufferZero(t)

(* ---------------------------------------------------------------------- *)
(* Specification: one client thread opening the port with auto-reconnect   *)
(* and creating and closing sessions, the reader threads, the reconnect    *)
(* thread, the device                                                      *)
(* ---------------------------------------------------------------------- *)
NextR ==
  \/ \E p \in OpenablePorts :
       CreateSessionCall("c1", p, "crlf", FALSE, 2) /\ UNCHANGED svars
  \/ CreateStep("c1") /\ UNCHANGED svars
  \/ \E p \in OpenablePorts : CloseSessionCall("c1", p) /\ UNCHANGED svars
  \/ CloseSessionPop("c1") /\ UNCHANGED svars
  \/ CloseSessionStop("c1") /\ UNCHANGED svars
  \/ CloseSessionEvent("c1") /\ UNCHANGED svars
  \/ CloseSessionJoin("c1") /\ UNCHANGED svars
  \/ Return("c1") /\ UNCHANGED tvars
  \/ \E i \in SessionIds : ReaderCheck(i) /\ UNCHANGED svars
  \/ \E i \in SessionIds : ReaderRead(i) /\ UNCHANGED svars
  \/ \E i \in SessionIds : ReaderWait(i) /\ UNCHANGED svars
  \/ \E p \in OpenablePorts : OpenPortCall("c1", p, DefaultArgs, TRUE) /\ UNCHANGED tvars
  \/ OpenPortCheck("c1") /\ UNCHANGED tvars
  \/ OpenPortCreate("c1") /\ UNCHANGED tvars
  \/ OpenPortInsert("c1") /\ UNCHANGED tvars
  \/ \E t \in Threads : AcquireLock(t) /\ UNCHANGED tvars
  \/ \E t \in Threads : ReleaseLock(t) /\ UNCHANGED tvars
  \/ SupStep /\ UNCHANGED tvars
  \/ \E p \in OpenablePorts : DeviceLost(p) /\ UNCHANGED tvars
  \/ \E p \in OpenablePorts : DeviceBack(p) /\ UNCHANGED tvars

SpecR == Init /\ [][NextR]_vars

(* ---------------------------------------------------------------------- *)
(* Specification: one client thread opens the port, creates an echoing     *)
(* session and sends commands, another reads and clears the buffer, the    *)
(* reader thread appends what the device sends until the device is lost    *)
(* ---------------------------------------------------------------------- *)
\* Capacity of the session buffers, in bytes.
BufferSize == 2

\* Chunks the device sends: the byte 0xFF, which is no UTF-8 text, and "ABC".
Chunks == {<<255>>, <<65, 66, 67>>}

NextB ==
  \/ OpenStep("c1") /\ UNCHANGED tvars
  \/ \E p \in OpenablePorts :
       CreateSessionCall("c1", p, "crlf", TRUE, BufferSize) /\ UNCHANGED svars
  \/ CreateStep("c1") /\ UNCHANGED svars
  \/ \E p \in OpenablePorts, a \in BOOLEAN :
       SendCommandCall("c1", p, <<233>>, a) /\ UNCHANGED svars
  \/ SendStep("c1") /\ UNCHANGED svars
  \/ ReceiverStep("c2") /\ UNCHANGED svars
  \/ \E t \in Clients : Return(t) /\ UNCHANGED tvars
  \/ \E i \in SessionIds : ReaderStep(i) /\ UNCHANGED svars
  \/ \E p \in OpenablePorts : DeviceLost(p) /\ UNCHANGED tvars
  \/ \E p \in OpenablePorts, d \in Chunks : DeviceSends(p, d) /\ UNCHANGED svars

SpecB == Init /\ [][NextB]_vars

(* ---------------------------------------------------------------------- *)
(* Specification: one client thread opens the port, creates a session      *)
(* with any line ending, with or without echo, and sends commands; the     *)
(* reader thread runs until the device is lost                             *)
(* ---------------------------------------------------------------------- *)
\* Line endings the client names, in the spellings it uses.
LineEndingNames == {"CR", "LF", "crlf"}

\* The texts "A" and "é".
Texts == {<<65>>, <<233>>}

\* Capacity of the session buffer: it holds the longest command.
EchoBufferSize == 4

NextC ==
  \/ OpenStep("c1") /\ UNCHANGED tvars
  \/ \E p \in OpenablePorts, le \in LineEndingNames, e \in BOOLEAN :
       CreateSessionCall("c1", p, le, e, EchoBufferSize) /\ UNCHANGED svars
  \/ CreateStep("c1") /\ UNCHANGED svars
  \/ \E p \in OpenablePorts, x \in Texts, a \in BOOLEAN :
       SendCommandCall("c1", p, x, a) /\ UNCHANGED svars
  \/ SendStep("c1") /\ UNCHANGED svars
  \/ Return("c1") /\ UNCHANGED tvars
  \/ \E i \in SessionIds : ReaderCheck(i) /\ UNCHANGED svars
  \/ \E i \in SessionIds : ReaderRead(i) /\ UNCHANGED svars
  \/ \E i \in SessionIds : ReaderWait(i) /\ UNCHANGED svars
  \/ \E p \in OpenablePorts : DeviceLost(p) /\ UNCHANGED tvars

SpecC == Init /\ [][NextC]_vars

(* ---------------------------------------------------------------------- *)
(* Specification: the life of a session.  One client thread opens the      *)
(* port, creates and closes sessions and sends commands; another closes    *)
(* sessions, asks for their information and reads their output; the        *)
(* reader threads run, the device can be lost                              *)
(* ---------------------------------------------------------------------- *)
\* close_session, past its call
CloseStep(t) ==
  \/ CloseSessionPop(t)
  \/ CloseSessionStop(t)
  \/ CloseSessionEvent(t)
  \/ CloseSessionJoin(t)

NextL ==
  \/ OpenStep("c1") /\ UNCHANGED tvars
  \/ \E p \in OpenablePorts :
       CreateSessionCall("c1", p, "crlf", FALSE, 2) /\ UNCHANGED svars
  \/ CreateStep("c1") /\ UNCHANGED svars
  \/ \E p \in OpenablePorts :
       SendCommandCall("c1", p, <<65>>, FALSE) /\ UNCHANGED svars
  \/ SendStep("c1") /\ UNCHANGED svars
  \/ \E t \in Clients, p \in OpenablePorts : CloseSessionCall(t, p) /\ UNCHANGED svars
  \/ \E t \in Clients : CloseStep(t) /\ UNCHANGED svars
  \/ TAcquire("c2") /\ UNCHANGED svars
  \/ TRelease("c2") /\ UNCHANGED svars
  \/ \E p \in OpenablePorts : GetSessionInfoCall("c2", p) /\ UNCHANGED svars
  \/ GetSessionInfoGet("c2") /\ UNCHANGED svars
  \/ GetSessionInfoInfo("c2") /\ UNCHANGED svars
  \/ \E p \in OpenablePorts : ReadOutputCall("c2", p, FALSE) /\ UNCHANGED svars
  \/ ReadOutputGet("c2") /\ UNCHANGED svars
  \/ ReadOutputLock("c2") /\ UNCHANGED svars
  \/ ReadOutputJoin("c2") /\ UNCHANGED svars
  \/ \E t \in Clients : Return(t) /\ UNCHANGED tvars
  \/ \E i \in SessionIds : ReaderCheck(i) /\ UNCHANGED svars
  \/ \E i \in SessionIds : ReaderRead(i) /\ UNCHANGED svars
  \/ \E i \in SessionIds : ReaderWait(i) /\ UNCHANGED svars
  \/ \E p \in OpenablePorts : DeviceLost(p) /\ UNCHANGED tvars

SpecL == Init /\ [][NextL]_vars

(* ---------------------------------------------------------------------- *)
(* Specification: one client thread opens, reconfigures and closes the     *)
(* port while another sends and reads data, with and without a read        *)
(* timeout of its own; the device sends bytes and can be lost              *)
(* ---------------------------------------------------------------------- *)
\* The bytes "AB" the client sends, the byte "B" the device sends.
Payload == <<65, 66>>

\* The timeout_ms arguments of read_data: omitted, or 500 ms.
TimeoutArgs == {<<>>, <<500>>}

\* send_data and read_data
DataStep(t) ==
  \/ \E p \in OpenablePorts : SendDataCall(t, p, Payload)
  \/ SendDataSend(t)
  \/ \E p \in OpenablePorts, tm \in TimeoutArgs : ReadDataCall(t, p, tm)
  \/ ReadDataLookup(t)
  \/ ReadDataOverride(t)
  \/ ReadDataRead(t)
  \/ ReadDataRestore(t)

\* set_config with supported values, close_port
ReconfigureStep(t) ==
  \/ \E p \in OpenablePorts, f \in ValidSetArgSet : SetConfigCall(t, p, f)
  \/ SetConfigLookup(t)
  \/ SetConfigApply(t)
  \/ SetConfigStore(t)
  \/ \E p \in OpenablePorts : ClosePortCall(t, p)
  \/ ClosePortPop(t)
  \/ ClosePortSerial(t)

NextD ==
  \/ OpenStep("c1") /\ UNCHANGED tvars
  \/ ReconfigureStep("c1") /\ UNCHANGED tvars
  \/ DataStep("c2")
  \/ \E t \in Clients : Return(t) /\ UNCHANGED tvars
  \/ \E p \in OpenablePorts : DeviceLost(p) /\ UNCHANGED tvars
  \/ \E p \in OpenablePorts : DeviceSends(p, <<66>>) /\ UNCHANGED svars

SpecD == Init /\ [][NextD]_vars

(* ---------------------------------------------------------------------- *)
(* Specification: read timeouts.  One client thread opens and reconfigures *)
(* the port and creates a session, whose reader thread reads with its      *)
(* short timeout; another reads data with a timeout of its own; the device *)
(* can be lost                                                             *)
(* ---------------------------------------------------------------------- *)
NextT ==
  \/ OpenStep("c1") /\ UNCHANGED tvars
  \/ \E p \in OpenablePorts, f \in ValidSetArgSet :
       SetConfigCall("c1", p, f) /\ UNCHANGED tvars
  \/ SetConfigLookup("c1") /\ UNCHANGED tvars
  \/ SetConfigApply("c1") /\ UNCHANGED tvars
  \/ SetConfigStore("c1") /\ UNCHANGED tvars
  \/ \E p \in OpenablePorts :
       CreateSessionCall("c1", p, "crlf", FALSE, 2) /\ UNCHANGED svars
  \/ CreateStep("c1") /\ UNCHANGED svars
  \/ \E p \in OpenablePorts, tm \in TimeoutArgs : ReadDataCall("c2", p, tm)
  \/ ReadDataLookup("c2")
  \/ ReadDataOverride("c2")
  \/ ReadDataRead("c2")
  \/ ReadDataRestore("c2")
  \/ \E t \in Clients : Return(t) /\ UNCHANGED tvars
  \/ \E i \in SessionIds : ReaderCheck(i) /\ UNCHANGED svars
  \/ \E i \in SessionIds : ReaderReadTimed(i)
  \/ \E i \in SessionIds : ReaderWait(i) /\ UNCHANGED svars
  \/ \E p \in OpenablePorts : DeviceLost(p) /\ UNCHANGED tvars

SpecT == Init /\ [][NextT]_vars

(* ---------------------------------------------------------------------- *)
(* Specification: the three kinds of lock together.  One client thread     *)
(* opens the port with auto-reconnect, creates an echoing session and      *)
(* sends commands; another closes the session and lists the sessions; the  *)
(* reader thread and the reconnect thread run; the device sends bytes and  *)
(* is lost.  One session is created, so that the data path stays small     *)
(* ---------------------------------------------------------------------- *)
NextK ==
  \/ \E p \in OpenablePorts : OpenPortCall("c1", p, DefaultArgs, TRUE) /\ UNCHANGED tvars
  \/ OpenPortCheck("c1") /\ UNCHANGED tvars
  \/ OpenPortCreate("c1") /\ UNCHANGED tvars
  \/ OpenPortInsert("c1") /\ UNCHANGED tvars
  \/ \E t \in Threads : AcquireLock(t) /\ UNCHANGED tvars
  \/ \E t \in Threads : ReleaseLock(t) /\ UNCHANGED tvars
  \/ SupStep /\ UNCHANGED tvars
  \/ \E p \in OpenablePorts :
       /\ UnusedSessions = SessionIds
       /\ CreateSessionCall("c1", p, "crlf", TRUE, BufferSize)
       /\ UNCHANGED svars
  \/ \E t \in Clients : CreateStep(t) /\ UNCHANGED svars
  \/ \E p \in OpenablePorts :
       SendCommandCall("c1", p, <<65>>, FALSE) /\ UNCHANGED svars
  \/ SendStep("c1") /\ UNCHANGED svars
  \/ \E p \in OpenablePorts : CloseSessionCall("c2", p) /\ UNCHANGED svars
  \/ CloseStep("c2") /\ UNCHANGED svars
  \/ ListSessionsCall("c2") /\ UNCHANGED svars
  \/ ListSessionsInfo("c2") /\ UNCHANGED svars
  \/ \E t \in Clients : Return(t) /\ UNCHANGED tvars
  \/ \E i \in SessionIds : ReaderStep(i) /\ UNCHANGED svars
  \/ \E p \in OpenablePorts : DeviceLost(p) /\ UNCHANGED tvars
  \/ \E p \in OpenablePorts : DeviceSends(p, <<65>>) /\ UNCHANGED svars

SpecK == Init /\ [][NextK]_vars

(* ---------------------------------------------------------------------- *)
(* TerminalManager.shutdown                                                *)
(* ---------------------------------------------------------------------- *)
TShutdownCall(t) ==
  /\ pc[t] = "idle"
  /\ SetLoc(t, [op |-> "terminal_shutdown"])
  /\ Goto(t, "ts_lock")
  /\ UNCHANGED tvars

\* list(self._sessions.items()), taken inside the lock
TShutdownSnapshot(t) ==
  /\ pc[t] = "ts_snapshot"
  /\ SetLoc(t, loc[t] @@ [todo |-> {sessions[p] : p \in DOMAIN sessions}])
  /\ Goto(t, "ts_next")
  /\ UNCHANGED tvars

\* The for loop: the next session, or self._sessions.clear() after the last
TShutdownNext(t) ==
  /\ pc[t] = "ts_next"
  /\ IF loc[t].todo = {}
       THEN /\ Goto(t, "ts_clear")
            /\ UNCHANGED loc
       ELSE \E i \in loc[t].todo :
              /\ SetLoc(t, [op |-> loc[t].op, todo |-> loc[t].todo \ {i},
                            sid |-> i])
              /\ Goto(t, "ts_stop")
  /\ UNCHANGED tvars

\* session.stop(): `if not self._running: return`, else the flag
TShutdownStop(t) ==
  /\ pc[t] = "ts_stop"
  /\ LET s == sess[loc[t].sid]
     IN IF s.running
          THEN /\ SetSess(loc[t].sid, [s EXCEPT !.running = FALSE])
               /\ Goto(t, "ts_event")
          ELSE /\ Goto(t, "ts_next")
               /\ UNCHANGED sess
  /\ UNCHANGED <<loc, sessions, tlock, rx, tx>>

\* self._stop_event.set()
TShutdownEvent(t) ==
  /\ pc[t] = "ts_event"
  /\ SetSess(loc[t].sid, [sess[loc[t].sid] EXCEPT !.stop = TRUE])
  /\ Goto(t, "ts_join")
  /\ UNCHANGED <<loc, sessions, tlock, rx, tx>>

\* join(timeout=2.0): over when the reader has exited or after two seconds
TShutdownJoin(t) ==
  /\ pc[t] = "ts_join"
  /\ Goto(t, "ts_next")
  /\ UNCHANGED <<loc, sessions, sess, tlock, rx, tx>>

\* Variant: the sessions stay in the map.
TShutdownClearKeeps(t) ==
  /\ pc[t] = "ts_clear"
  /\ SetRet(t, [kind |-> "ok"])
  /\ Goto(t, "t_release")
  /\ UNCHANGED <<sessions, sess, tlock, rx, tx>>

\* self._sessions.clear()
TShutdownClear(t) ==
  /\ pc[t] = "ts_clear"
  /\ sessions' = [q \in {} |-> 0]
  /\ SetRet(t, [kind |-> "ok"])
  /\ Goto(t, "t_release")
  /\ UNCHANGED <<sess, tlock, rx, tx>>

TShutdownStep(t) ==
  \/ TShutdownSnapshot(t)
  \/ TShutdownNext(t)
  \/ TShutdownStop(t)
  \/ TShutdownEvent(t)
  \/ TShutdownJoin(t)
  \/ TShutdownClear(t)

(* ---------------------------------------------------------------------- *)
(* SerialManager.shutdown                                                  *)
(* ---------------------------------------------------------------------- *)
ShutdownCall(t) ==
  /\ pc[t] = "idle"
  /\ loc' = [loc EXCEPT ![t] = [op |-> "shutdown"]]
  /\ Goto(t, "sh_stop")
  /\ UNCHANGED <<ports, order, handles, deviceOk, lock, sup>>

\* self._running = False
ShutdownStop(t) ==
  /\ pc[t] = "sh_stop"
  /\ sup' = [sup EXCEPT !.running = FALSE]
  /\ Goto(t, "sh_join")
  /\ UNCHANGED <<ports, order, handles, deviceOk, lock, loc>>

\* join(timeout=5.0): over when the reconnect thread has ended or after
\* five seconds
ShutdownJoin(t) ==
  /\ pc[t] = "sh_join"
  /\ Goto(t, "sh_lock")
  /\ UNCHANGED <<ports, order, handles, deviceOk, lock, loc, sup>>

\* Variant: the registry is cleared and its handles are left open.
ShutdownCloseForgets(t) ==
  /\ pc[t] = "sh_close"
  /\ ports' = [q \in {} |-> Idle]
  /\ order' = <<>>
  /\ loc' = [loc EXCEPT ![t] = @ @@ [ret |-> [kind |-> "ok"]]]
  /\ Goto(t, "release")
  /\ UNCHANGED <<handles, deviceOk, lock, sup>>

\* Inside the lock: close() of every handle of the registry, an exception
\* of close() is logged and passed over; then self._ports.clear()
ShutdownClose(t) ==
  /\ pc[t] = "sh_close"
  /\ \E raising \in SUBSET DOMAIN ports :
       handles' = [h \in HandleIds |->
                     IF \E p \in DOMAIN ports : ports[p].handle = h
                       THEN IF \E p \in raising : ports[p].handle = h
                              THEN LeakedSerial(handles[h].port)
                              ELSE NoSerial
                       ELSE handles[h]]
  /\ ports' = [q \in {} |-> Idle]
  /\ order' = <<>>
  /\ loc' = [loc EXCEPT ![t] = @ @@ [ret |-> [kind |-> "ok"]]]
  /\ Goto(t, "release")
  /\ UNCHANGED <<deviceOk, lock, sup>>

ShutdownStep(t) ==
  \/ ShutdownStop(t)
  \/ ShutdownJoin(t)
  \/ ShutdownClose(t)


(* ---------------------------------------------------------------------- *)
(* Properties                                                              *)
(* ---------------------------------------------------------------------- *)
Registered(p) == p \in DOMAIN ports

\* Thread t's call has produced result r and has not returned yet.
Finishing(t, op) ==
  /\ pc[t] \in {"release", "done"}
  /\ loc[t].op = op
  /\ "ret" \in DOMAIN loc[t]

Failed(t, code) == loc[t].ret.kind = "error" /\ loc[t].ret.code = code

Succeeded(t) == loc[t].ret.kind \in {"status", "ok"}

\* Thread t takes a step of its own.
Steps(t) == pc'[t] # pc[t]

ProbeFails(p) ==
  ~(handles[ports[p].handle].open /\ handles[ports[p].handle].alive)

\* The reconnect thread has port p in its list and has not started on it.
Scheduled(p) == \E i \in 1..Len(sup.queue) : sup.queue[i].port = p

\* The reconnect thread is inside _try_reconnect for port p.
Attempting(p) ==
  /\ sup.cur.port = p
  /\ pc[Sup] \in {"sup_create", "sup_swap_lock", "sup_swap", "sup_raise",
                  "sup_fail_lock", "sup_fail"}

Installs ==
  /\ Steps(Sup)
  /\ pc[Sup] = "sup_swap"
  /\ sup.cur.port \in DOMAIN ports

\* C3: when a recreate attempt succeeds and the entry exists, the swap
\* changes only the handle and resets reconnecting: the id stays
\* registered, auto_reconnect and the stored configuration are those the
\* entry had.
C3_SwapChangesOnlyHandle ==
  [][Installs =>
       LET p == sup.cur.port
       IN /\ DOMAIN ports' = DOMAIN ports
          /\ ports'[p].handle = sup.newh
          /\ ~ports'[p].reconnecting
          /\ ports'[p].auto_reconnect = ports[p].auto_reconnect
          /\ ports'[p].config = ports[p].config]_vars

\* C4: when the entry is gone at the swap (close_port removed it during the
\* attempt and no open_port re-created it), the attempt calls close() on
\* the handle it created and installs nothing; and no step of the
\* reconnect thread ever adds an id to the registry, so a closed id comes
\* back only through open_port.
C4_ClosedPortStaysClosed ==
  /\ [][(Steps(Sup) /\ pc[Sup] = "sup_swap" /\ sup.cur.port \notin DOMAIN ports) =>
          /\ ports' = ports
          /\ order' = order
          /\ ~handles'[sup.newh].open \/ handles'[sup.newh].closeCalled
          /\ \A h \in HandleIds \ {sup.newh} : handles'[h] = handles[h]]_vars
  /\ [][Steps(Sup) => DOMAIN ports' \subseteq DOMAIN ports]_vars
  /\ [][\A p \in PortIds :
          (p \notin DOMAIN ports /\ p \in DOMAIN ports') =>
             \E t \in Clients :
               /\ Steps(t)
               /\ loc[t].op = "open_port"
               /\ loc[t].port = p
               /\ ports'[p].handle = loc[t].h]_vars

\* C4 witness: the swap finds the entry removed while the attempt held a
\* new handle, and has disposed of that handle.
C4_Witness ==
  /\ pc[Sup] \in {"sup_release", "sup_raise"}
  /\ sup.newh # 0
  /\ sup.cur.port \notin DOMAIN ports
  /\ ~handles[sup.newh].open \/ handles[sup.newh].closeCalled

InSection(t) ==
  pc[t] \in {"open_check", "open_create", "open_insert", "close_pop",
             "close_serial", "set_lookup", "set_apply", "set_store",
             "status_read", "release", "sup_scan", "sup_release", "sup_swap",
             "sup_raise", "sup_fail"}

\* The handles the registry entries refer to.
RegistryHandles == {ports[p].handle : p \in DOMAIN ports}

\* C6: the lookup-and-mutate sections of open_port, close_port, set_config
\* and the reconnect swap exclude one another: a thread inside its section
\* holds the registry lock, no two threads are inside a section at once,
\* while a thread is inside its section no other thread's step changes the
\* registry or opens, closes or reconfigures a registered handle, and the
\* registry changes only by a step of a thread inside its section.
C6_StructuralOpsExclusive ==
  /\ [](\A t \in Threads : InSection(t) => lock = t)
  /\ [](\A t, u \in Threads : (InSection(t) /\ InSection(u)) => t = u)
  /\ [][\A t \in Threads :
          (InSection(t) /\ ~Steps(t)) =>
             /\ ports' = ports
             /\ order' = order
             /\ \A h \in RegistryHandles :
                  /\ handles'[h].open = handles[h].open
                  /\ handles'[h].closeCalled = handles[h].closeCalled
                  /\ handles'[h].settings = handles[h].settings]_vars
  /\ [][(ports' # ports \/ order' # order) =>
          \E t \in Threads : InSection(t) /\ Steps(t)]_vars

\* C6 witness: close_port has removed the entry and not yet closed the
\* handle, while the reconnect swap and another thread's open_port for the
\* same id wait for the lock.
C6_Witness ==
  \E t, u \in Clients :
    /\ t # u
    /\ pc[t] = "close_serial"
    /\ pc[u] = "open_lock"
    /\ loc[u].port = loc[t].port
    /\ pc[Sup] = "sup_swap_lock"
    /\ sup.cur.port = loc[t].port

\* Thread t's set_config has succeeded and is about to return.
SetConfigDone(t) ==
  /\ pc[t] = "release"
  /\ loc[t].op = "set_config"
  /\ "ret" \in DOMAIN loc[t]
  /\ loc[t].ret.kind = "status"

\* C7: when set_config(id, F) succeeds, the stored configuration has the
\* value of F for every supplied field and the value found at the lookup
\* for every omitted one, the status returned carries it, and the handle,
\* still the same open object and never closed, has the settings of that
\* merged configuration; no step of the call changes the entry's handle,
\* auto_reconnect or reconnecting, another entry, or another handle.
C7_SetConfigMergesSupplied ==
  /\ [](\A t \in Clients :
          SetConfigDone(t) =>
            /\ Registered(loc[t].port)
            /\ LET p == loc[t].port
                   f == loc[t].args
                   new == ConfigToDict(ports[p].config)
                   old == ConfigToDict(loc[t].current)
                   s == handles[ports[p].handle]
               IN /\ \A k \in FieldSet :
                       new[k] = IF k \in DOMAIN f THEN f[k] ELSE old[k]
                  /\ loc[t].ret.status.config = ports[p].config
                  /\ ports[p].handle = loc[t].h
                  /\ s.open
                  /\ ~s.closeCalled
                  /\ s.settings.baudrate = new.baudrate
                  /\ s.settings.bytesize = new.bytesize
                  /\ s.settings.parity = new.parity
                  /\ s.settings.stopbits = new.stopbits
                  /\ s.settings.xonxoff = (new.flow_control = "software")
                  /\ s.settings.rtscts = (new.flow_control = "hardware")
                  /\ s.settings.timeout = <<new.read_timeout_ms, 1000>>
                  /\ s.settings.write_timeout = <<new.write_timeout_ms, 1000>>)
  /\ [][\A t \in Clients :
          (Steps(t) /\ pc[t] \in {"set_lookup", "set_apply", "set_store"}
             /\ Registered(loc[t].port)) =>
            LET p == loc[t].port
                h == ports[p].handle
            IN /\ DOMAIN ports' = DOMAIN ports
               /\ order' = order
               /\ ports'[p].handle = h
               /\ ports'[p].auto_reconnect = ports[p].auto_reconnect
               /\ ports'[p].reconnecting = ports[p].reconnecting
               /\ \A q \in DOMAIN ports \ {p} : ports'[q] = ports[q]
               /\ handles'[h].open = handles[h].open
               /\ handles'[h].closeCalled = handles[h].closeCalled
               /\ \A g \in HandleIds \ {h} : handles'[g] = handles[g]
               /\ (pc[t] = "set_lookup" /\ pc'[t] = "set_apply") =>
                    loc'[t].current = ports[p].config
               /\ pc[t] # "set_store" => ports'[p].config = ports[p].config]_vars
  /\ [][\A t \in Clients :
          (pc[t] \in {"set_apply", "set_store"} /\ ~Steps(t)) =>
             ports' = ports]_vars

\* C7 witness: a set_config that supplied the baud rate and the read
\* timeout has succeeded on a port whose flow control was not the default.
C7_Witness ==
  \E t \in Clients :
    /\ SetConfigDone(t)
    /\ DOMAIN loc[t].args = {"baudrate", "read_timeout_ms"}
    /\ loc[t].current.baudrate = 115200
    /\ loc[t].current.flow_control = "SOFTWARE"
    /\ ports[loc[t].port].config.baudrate = 19200
    /\ ports[loc[t].port].config.read_timeout_ms = 0
    /\ ports[loc[t].port].config.flow_control = "SOFTWARE"

\* Every field of the argument record a is in its supported set or range.
ArgsSupported(a) ==
  /\ a.baudrate \in SUPPORTED_BAUDRATES
  /\ a.bytesize \in {5, 6, 7, 8}
  /\ a.parity \in {"N", "E", "O", "M", "S"}
  /\ a.stopbits \in {10, 15, 20}
  /\ a.flow_control \in {"none", "hardware", "software"}
  /\ a.read_timeout_ms \in 0..60000
  /\ a.write_timeout_ms \in 0..60000

\* The step leaves the registry and every handle as they are.
SharedUnchanged == ports' = ports /\ order' = order /\ handles' = handles

\* A set_config whose merged configuration has an unsupported field, on a
\* registered id, fails invalid-parameter at the lookup and changes nothing.
InvalidSetConfigRejected ==
  [][\A t \in Clients :
       (Steps(t) /\ pc[t] = "set_lookup" /\ Registered(loc[t].port)
          /\ ~ArgsSupported(MergeArgs(ports[loc[t].port].config, loc[t].args))) =>
         /\ SharedUnchanged
         /\ pc'[t] = "release"
         /\ loc'[t].ret.kind = "error"
         /\ loc'[t].ret.code = "INVALID_PARAM"]_vars

\* A call that has its result changes nothing before it returns.
FinishedCallChangesNothing ==
  [][\A t \in Clients :
       (Steps(t) /\ pc[t] \in {"done", "release"}) => SharedUnchanged]_vars

\* C8 as stated: every open_port call whose configuration has an
\* unsupported field fails invalid-parameter, whatever the id, and every
\* such set_config on a registered id does, changing nothing.
C8_InvalidConfigFailsAnyId ==
  /\ [][\A t \in Clients :
          (Steps(t) /\ pc[t] = "idle" /\ loc'[t].op = "open_port"
             /\ ~ArgsSupported(loc'[t].args)) =>
            /\ SharedUnchanged
            /\ pc'[t] = "done"
            /\ loc'[t].ret.kind = "error"
            /\ loc'[t].ret.code = "INVALID_PARAM"]_vars
  /\ InvalidSetConfigRejected
  /\ FinishedCallChangesNothing

\* C8: open_port on an id that is not blacklisted, or set_config on a
\* registered id, whose (merged) configuration has a field outside its
\* supported set or range fails invalid-parameter and changes nothing
\* shared: the open_port call ends before the locked section, so no entry
\* is added and no handle created; set_config leaves the stored
\* configuration and the handle's settings as they were.
C8_InvalidConfigRejected ==
  /\ [][\A t \in Clients :
          (Steps(t) /\ pc[t] = "idle" /\ loc'[t].op = "open_port"
             /\ loc'[t].port \notin Blacklisted
             /\ ~ArgsSupported(loc'[t].args)) =>
            /\ SharedUnchanged
            /\ pc'[t] = "done"
            /\ loc'[t].ret.kind = "error"
            /\ loc'[t].ret.code = "INVALID_PARAM"]_vars
  /\ InvalidSetConfigRejected
  /\ FinishedCallChangesNothing

\* C8 witness: set_config with an unsupported stop-bits value has failed
\* invalid-parameter on a registered port.
C8_Witness ==
  \E t \in Clients :
    /\ Finishing(t, "set_config")
    /\ Registered(loc[t].port)
    /\ Failed(t, "INVALID_PARAM")
    /\ loc[t].ret.field = "stopbits"

\* The order in which C9 names the fields.
ClaimOrder ==
  <<"baudrate", "bytesize", "parity", "stopbits", "flow_control",
    "read_timeout_ms", "write_timeout_ms">>

FieldSupported(a, k) ==
  CASE k = "baudrate" -> a.baudrate \in SUPPORTED_BAUDRATES
    [] k = "bytesize" -> a.bytesize \in {5, 6, 7, 8}
    [] k = "parity" -> a.parity \in {"N", "E", "O", "M", "S"}
    [] k = "stopbits" -> a.stopbits \in {10, 15, 20}
    [] k = "flow_control" -> a.flow_control \in {"none", "hardware", "software"}
    [] k = "read_timeout_ms" -> a.read_timeout_ms \in 0..60000
    [] k = "write_timeout_ms" -> a.write_timeout_ms \in 0..60000

\* The first field, in the claim's order, whose value is unsupported.
FirstUnsupported(a) ==
  ClaimOrder[CHOOSE i \in 1..Len(ClaimOrder) :
               /\ ~FieldSupported(a, ClaimOrder[i])
               /\ \A j \in 1..(i - 1) : FieldSupported(a, ClaimOrder[j])]

\* open_port on a non-blacklisted id with an unsupported value fails
\* invalid-parameter naming the first unsupported field.
NamesFirstInvalid ==
  \A t \in Clients :
    (Finishing(t, "open_port") /\ loc[t].port \notin Blacklisted
       /\ ~ArgsSupported(loc[t].args)) =>
      /\ Failed(t, "INVALID_PARAM")
      /\ loc[t].ret.field = FirstUnsupported(loc[t].args)

\* get_status on a registered id returns the stored configuration, which
\* no step changes once the port is open.
StatusEchoesStored ==
  /\ [](\A t \in Clients :
          (Finishing(t, "get_status") /\ Registered(loc[t].port)) =>
             /\ loc[t].ret.kind = "status"
             /\ loc[t].ret.status.config = ports[loc[t].port].config)
  /\ [][\A p \in DOMAIN ports :
          p \in DOMAIN ports' /\ ports'[p].config = ports[p].config]_vars

\* The open_port call of t has stored and returned exactly its arguments.
OpenedWithArgs(t) ==
  /\ Succeeded(t)
  /\ Registered(loc[t].port)
  /\ ConfigToDict(loc[t].ret.status.config) = loc[t].args
  /\ ConfigToDict(ports[loc[t].port].config) = loc[t].args

\* C9 as stated: open_port on an absent, non-blacklisted id succeeds for
\* every supported combination of values.
C9_OpenSucceedsForSupported ==
  /\ [](\A t \in Clients :
          (Finishing(t, "open_port") /\ loc[t].port \notin Blacklisted
             /\ ArgsSupported(loc[t].args)) => OpenedWithArgs(t))
  /\ []NamesFirstInvalid
  /\ StatusEchoesStored

\* C9: for every supported combination of values, open_port on an absent,
\* non-blacklisted id whose device can be opened succeeds, stores exactly
\* those values and get_status returns them; with an unsupported value the
\* call fails invalid-parameter naming the first unsupported field in the
\* order baudrate, bytesize, parity, stopbits, flow_control,
\* read_timeout_ms, write_timeout_ms.
C9_SupportedValuesEcho ==
  /\ [](\A t \in Clients :
          (Finishing(t, "open_port") /\ loc[t].port \notin Blacklisted
             /\ ArgsSupported(loc[t].args) /\ deviceOk[loc[t].port]) =>
            OpenedWithArgs(t))
  /\ []NamesFirstInvalid
  /\ StatusEchoesStored

\* C9 witness: get_status returns the values of an open_port call none of
\* which is the default.
C9_Witness ==
  \E t \in Clients :
    /\ Finishing(t, "get_status")
    /\ Succeeded(t)
    /\ ConfigToDict(loc[t].ret.status.config) =
         [baudrate |-> 921600, bytesize |-> 5, parity |-> "M",
          stopbits |-> 15, flow_control |-> "hardware",
          read_timeout_ms |-> 60000, write_timeout_ms |-> 0]

\* C10: close_port on an id that is not registered fails port-closed and
\* changes nothing; when close_port succeeds the id is no longer registered
\* and close() has been called on its handle, whether or not that call
\* raised; get_status, set_config and close_port on an id that is not
\* registered fail port-closed and change nothing; and an id that is not
\* registered becomes registered only by the insert of an open_port.
C10_ClosePort ==
  /\ [][\A t \in Clients :
          (Steps(t) /\ pc[t] \in {"close_pop", "set_lookup", "status_read"}
             /\ ~Registered(loc[t].port)) =>
            /\ SharedUnchanged
            /\ pc'[t] = "release"
            /\ loc'[t].ret.kind = "error"
            /\ loc'[t].ret.code = "PORT_CLOSED"]_vars
  /\ [](\A t \in Clients :
          (Finishing(t, "close_port") /\ Succeeded(t)) =>
            /\ ~Registered(loc[t].port)
            /\ ~handles[loc[t].h].open \/ handles[loc[t].h].closeCalled)
  /\ [](\A t \in Clients :
          (Finishing(t, "close_port") /\ ~Succeeded(t)) =>
             Failed(t, "PORT_CLOSED"))
  /\ [][\A p \in PortIds :
          (~Registered(p) /\ p \in DOMAIN ports') =>
             \E t \in Clients :
               Steps(t) /\ pc[t] = "open_insert" /\ loc[t].port = p]_vars

\* C10 witness: close_port has succeeded although close() on the handle
\* raised, and the id is gone from the registry.
C10_Witness ==
  \E t \in Clients :
    /\ Finishing(t, "close_port")
    /\ Succeeded(t)
    /\ handles[loc[t].h].closeCalled
    /\ ~Registered(loc[t].port)

\* C11: open_port on an id the blacklist reports fails device-blacklisted
\* at the call, whatever the other arguments (valid or not), without
\* entering the locked section; no blacklisted id is ever registered, no
\* handle is ever created for one, and the result of list_ports contains
\* none.
C11_BlacklistedRejected ==
  /\ [][\A t \in Clients :
          (Steps(t) /\ pc[t] = "idle" /\ loc'[t].op = "open_port"
             /\ loc'[t].port \in Blacklisted) =>
            /\ SharedUnchanged
            /\ pc'[t] = "done"
            /\ loc'[t].ret.kind = "error"
            /\ loc'[t].ret.code = "PORT_BLACKLISTED"]_vars
  /\ [](\A p \in Blacklisted :
          /\ ~Registered(p)
          /\ \A h \in HandleIds : handles[h].port # p)
  /\ [](\A t \in Clients :
          Finishing(t, "list_ports") =>
            loc[t].ret.ports \cap Blacklisted = {})

\* C11 witness: open_port on a blacklisted id with an unsupported baud rate
\* has failed device-blacklisted.
C11_Witness ==
  \E t \in Clients :
    /\ Finishing(t, "open_port")
    /\ loc[t].port \in Blacklisted
    /\ loc[t].args.baudrate \notin SUPPORTED_BAUDRATES
    /\ Failed(t, "PORT_BLACKLISTED")

(* ---------------------------------------------------------------------- *)
(* Properties of the terminal layer                                        *)
(* ---------------------------------------------------------------------- *)
\* Client t is inside _append_to_buffer on session object i (local echo).
Echoing(t, i) ==
  /\ pc[t] \in {"sc_push", "sc_add", "sc_evict"}
  /\ loc[t].sid = i

\* The reader of session object i is inside _append_to_buffer.
ReaderAppending(i) == sess[i].rpc \in {"ap_push", "ap_add", "ap_evict"}

\* This step ends an _append_to_buffer on session object i.
AppendCompleted(i) ==
  /\ ReaderAppending(i) \/ \E t \in Clients : Echoing(t, i)
  /\ sess[i].block # "free"
  /\ sess'[i].block = "free"

\* C12: whenever an _append_to_buffer of the reader loop or of the local
\* echo completes, the tracked total of the session is at most its
\* capacity, whatever the sizes of the chunks appended so far; and whenever
\* no operation is inside the buffer, neither the tracked total nor the
\* bytes held exceed the capacity.
C12_BufferBounded ==
  /\ [][\A i \in SessionIds :
          AppendCompleted(i) => sess'[i].size <= sess'[i].max]_vars
  /\ [](\A i \in SessionIds :
          sess[i].block = "free" =>
            /\ sess[i].size <= sess[i].max
            /\ SumLen(sess[i].buffer) <= sess[i].max)

\* C12 witness: the reader has completed an append that left two chunks
\* filling the buffer to its capacity.
C12_Witness ==
  \E i \in SessionIds :
    /\ sess[i].rpc = "wait"
    /\ sess[i].block = "free"
    /\ Len(sess[i].buffer) = 2
    /\ sess[i].size = sess[i].max

\* The chunk the _append_to_buffer in progress on session object i appends.
AppendedChunk(i) ==
  IF ReaderAppending(i) THEN sess[i].data
  ELSE loc[CHOOSE t \in Clients : Echoing(t, i)].raw

\* C13: whenever an _append_to_buffer completes, the chunk it appended is
\* the last chunk of the buffer, whatever its size: eviction has removed
\* older chunks only.
C13_LastChunkRetained ==
  [][\A i \in SessionIds :
       AppendCompleted(i) =>
         /\ sess'[i].buffer # <<>>
         /\ sess'[i].buffer[Len(sess'[i].buffer)] = AppendedChunk(i)]_vars

\* Thread t's terminal call has produced its result and has not returned.
TFinishing(t, op) ==
  /\ pc[t] \in {"done", "t_release"}
  /\ loc[t].op = op
  /\ "ret" \in DOMAIN loc[t]

\* C14: in every state in which no operation is inside the buffer's with
\* block, that is in every state a reader-loop append, a local-echo
\* append, read_output, clear_buffer or buffer_length can start from,
\* however these have interleaved before, the tracked total equals the sum
\* of the lengths of the chunks in the buffer.
C14_TotalIsSumOfChunks ==
  \A i \in SessionIds :
    sess[i].block = "free" => sess[i].size = SumLen(sess[i].buffer)

\* C14 witness: a read_output with clear has emptied a buffer that held
\* bytes, and before it returned a local echo was appended: the buffer
\* holds that chunk and the total is its length.
C14_Witness ==
  \E i \in SessionIds :
    /\ TFinishing("c2", "read_output")
    /\ loc["c2"].clear
    /\ loc["c2"].ret.kind = "output"
    /\ loc["c2"].ret.bytes_read > 0
    /\ TFinishing("c1", "send_command")
    /\ loc["c1"].ret.kind = "sent"
    /\ sess[i].block = "free"
    /\ sess[i].buffer = <<loc["c1"].raw>>
    /\ sess[i].size = Len(loc["c1"].raw)

\* Thread t's call has failed with the error code.
TFailed(t, code) == loc[t].ret.kind = "error" /\ loc[t].ret.code = code

\* C15, as claimed: a create_session call on an id the registry does not
\* hold when the call is made fails port-not-open if it fails at once.
C15_NotOpenFailsPortNotOpen ==
  [][\A t \in Clients :
       (Steps(t) /\ pc[t] = "idle" /\ loc'[t].op = "create_session"
          /\ loc'[t].port \notin DOMAIN ports /\ pc'[t] = "done") =>
         TFailed(t, "PORT_NOT_OPEN")']_vars

\* C15: a create_session call with a known line-ending name fails
\* port-not-open when the registry does not hold the id at the time the
\* call queries it, and fails session-exists when the registry held the id
\* and the session map holds a session for it at the lookup; the failing
\* step leaves the session map and every session object as they were, and
\* a failed call has constructed no session and started no reader loop.  A
\* call with an unknown line-ending name fails invalid-line-ending.
C15_CreateSessionRejected ==
  /\ [][\A t \in Clients :
          (Steps(t) /\ pc[t] = "idle" /\ loc'[t].op = "create_session") =>
            /\ pc'[t] = "done" <=> "line_ending" \notin DOMAIN loc'[t]
            /\ pc'[t] = "done" => TFailed(t, "INVALID_LINE_ENDING")']_vars
  /\ [][\A t \in Clients :
          (Steps(t) /\ pc[t] = "cs_status" /\ loc[t].port \notin DOMAIN ports) =>
            /\ pc'[t] = "done"
            /\ TFailed(t, "PORT_NOT_OPEN")'
            /\ UNCHANGED <<sessions, sess>>]_vars
  /\ [][\A t \in Clients :
          (Steps(t) /\ pc[t] = "cs_check" /\ loc[t].port \in DOMAIN sessions) =>
            /\ pc'[t] = "t_release"
            /\ TFailed(t, "SESSION_EXISTS")'
            /\ UNCHANGED <<sessions, sess>>]_vars
  /\ [](\A t \in Clients :
          (TFinishing(t, "create_session") /\ loc[t].ret.kind = "error") =>
            "sid" \notin DOMAIN loc[t])

\* C15 witness: one create_session has failed session-exists against a
\* registered session while another has failed port-not-open.
C15_Witness ==
  \E t, u \in Clients :
    /\ TFinishing(t, "create_session")
    /\ TFailed(t, "SESSION_EXISTS")
    /\ loc[t].port \in DOMAIN sessions
    /\ TFinishing(u, "create_session")
    /\ TFailed(u, "PORT_NOT_OPEN")

\* Session objects for port p whose reader thread has started and has not
\* left its loop.
ReadersAlive(p) ==
  {i \in SessionIds : sess[i].port = p /\ sess[i].rpc \notin {"none", "exit"}}

\* Session objects for port p whose active flag is set.
ActiveSessions(p) == {i \in SessionIds : sess[i].port = p /\ sess[i].running}

\* Of the create_session calls that reach the lookup for a port, one finds
\* no session and registers its own before any other looks; every other
\* fails session-exists.
CreateSessionExclusive ==
  /\ [][\A t \in Clients :
          (Steps(t) /\ pc[t] = "cs_check") =>
            IF loc[t].port \in DOMAIN sessions
              THEN TFailed(t, "SESSION_EXISTS")'
              ELSE pc'[t] = "cs_start"]_vars
  /\ [](\A t \in Clients :
          pc[t] \in {"cs_check", "cs_start", "cs_insert", "cs_info"} =>
            /\ tlock = t
            /\ \A u \in Clients \ {t} :
                 pc[u] \notin {"cs_check", "cs_start", "cs_insert", "cs_info"})
  /\ [](\A t \in Clients :
          (TFinishing(t, "create_session") /\ loc[t].ret.kind = "info") =>
            loc[t].port \in DOMAIN sessions /\ sessions[loc[t].port] = loc[t].sid)

\* C16: concurrent create_session calls for one open port id are
\* serialised, one registers its session and the others fail
\* session-exists; at any time a port id has at most one session with the
\* active flag set and at most one reader loop running.
C16_OneSessionOneReader ==
  /\ CreateSessionExclusive
  /\ [](\A p \in OpenablePorts : Cardinality(ActiveSessions(p)) <= 1)
  /\ [](\A p \in OpenablePorts : Cardinality(ReadersAlive(p)) <= 1)

\* The bytes send_command is to write: the UTF-8 encoding of the text,
\* followed by the bytes of the session's line ending when asked for.
ExpectedBytes(text, add, le) ==
  Utf8Encode(text) \o
    (IF ~add THEN <<>>
     ELSE IF le = "CR" THEN <<13>>
     ELSE IF le = "LF" THEN <<10>>
     ELSE <<13, 10>>)

\* C17: a send_command that has found its session active hands the
\* registry exactly the UTF-8 bytes of the text, followed by the bytes of
\* the session's line ending when add_line_ending is true and by nothing
\* otherwise; its result is the count the registry returned; with
\* local_echo the call appends to the buffer one chunk, exactly the bytes
\* written, and without local_echo no step of the call changes the buffer.
C17_SendCommandBytes ==
  /\ [][\A t \in Clients :
          (/\ Steps(t)
           /\ pc[t] = "sc_send"
           /\ (pc'[t] = "sc_echo" \/ loc'[t].ret.kind = "sent")) =>
            LET s == sess[loc[t].sid]
            IN /\ tx'[s.port] =
                    ExpectedBytes(loc[t].text, loc[t].add, s.line_ending)
               /\ pc'[t] = "done" <=> ~s.local_echo
               /\ pc'[t] = "done" =>
                    loc'[t].ret.bytes_written = Len(tx'[s.port])]_vars
  /\ [][\A t \in Clients :
          (Steps(t) /\ pc[t] = "sc_push") =>
            LET i == loc[t].sid
            IN /\ sess[i].local_echo
               /\ sess'[i].buffer = Append(sess[i].buffer, tx[sess[i].port])
               /\ loc[t].n = Len(tx[sess[i].port])]_vars
  /\ [][\A t \in Clients :
          (Steps(t) /\ loc[t].op = "send_command" /\ pc[t] # "sc_push") =>
            \A i \in SessionIds :
              \/ sess'[i].buffer = sess[i].buffer
              \/ pc[t] = "sc_evict" /\ sess'[i].buffer = Tail(sess[i].buffer)]_vars
  /\ [](\A t \in Clients :
          (TFinishing(t, "send_command") /\ loc[t].ret.kind = "sent") =>
            loc[t].ret.bytes_written =
              Len(ExpectedBytes(loc[t].text, loc[t].add,
                                sess[loc[t].sid].line_ending)))

\* C17 witness: send_command("é") with add_line_ending on an echoing
\* session whose line ending is CR has written 0xC3 0xA9 0x0D, returned
\* 3, and the buffer holds that chunk.
C17_Witness ==
  \E t \in Clients :
    /\ TFinishing(t, "send_command")
    /\ loc[t].ret.kind = "sent"
    /\ loc[t].ret.bytes_written = 3
    /\ loc[t].text = <<233>>
    /\ loc[t].add
    /\ sess[loc[t].sid].line_ending = "CR"
    /\ tx[loc[t].port] = <<195, 169, 13>>
    /\ sess[loc[t].sid].buffer = <<<<195, 169, 13>>>>

\* C18: send_command fails session-not-found when the session map holds
\* no session for the id at the lookup, and session-closed when the session
\* it found is not active; up to and including the failing step the call
\* writes nothing and changes no session object.  When the write raises,
\* the call fails send-command-failed at that step, which appends nothing
\* to the buffer and leaves the bytes on the wire as they were.
C18_SendCommandRejected ==
  /\ [][\A t \in Clients :
          (Steps(t) /\ pc[t] = "sc_get" /\ loc[t].port \notin DOMAIN sessions) =>
            pc'[t] = "done" /\ TFailed(t, "SESSION_NOT_FOUND")']_vars
  /\ [][\A t \in Clients :
          (Steps(t) /\ pc[t] = "sc_active" /\ ~sess[loc[t].sid].running) =>
            pc'[t] = "done" /\ TFailed(t, "SESSION_CLOSED")']_vars
  /\ [][\A t \in Clients :
          (/\ Steps(t)
           /\ \/ pc[t] \in {"sc_get", "sc_active"}
              \/ pc[t] = "idle" /\ loc'[t].op = "send_command") =>
            UNCHANGED <<tx, sess>>]_vars
  /\ [][\A t \in Clients :
          (/\ Steps(t)
           /\ pc[t] = "sc_send"
           /\ (\/ sess[loc[t].sid].port \notin DOMAIN ports
               \/ ~IsConnected(ports[sess[loc[t].sid].port].handle))) =>
            /\ pc'[t] = "done"
            /\ TFailed(t, "SEND_COMMAND_FAILED")'
            /\ UNCHANGED <<tx, sess>>]_vars

\* C18 witness: on an echoing session that is still active the write has
\* failed: the call has failed send-command-failed and the buffer is empty.
C18_Witness ==
  \E t \in Clients :
    /\ TFinishing(t, "send_command")
    /\ TFailed(t, "SEND_COMMAND_FAILED")
    /\ sess[loc[t].sid].local_echo
    /\ sess[loc[t].sid].running
    /\ sess[loc[t].sid].buffer = <<>>
    /\ tx[loc[t].port] = <<>>

\* C19: a read that raises ends the reader loop at that step and leaves
\* the session inactive; the active flag of a session whose reader thread
\* was started, once false (by a read error or by close_session), stays
\* false whatever happens to the port afterwards, a reader loop that has
\* ended stays ended, and the flag is set and the loop started only by the
\* start() of create_session on the session object it has just built.
C19_InactiveIsFinal ==
  /\ [][\A i \in SessionIds :
          (/\ sess[i].rpc = "read"
           /\ sess'[i].rpc # "read"
           /\ (\/ sess[i].port \notin DOMAIN ports
               \/ ~IsConnected(ports[sess[i].port].handle))) =>
            sess'[i].rpc = "exit" /\ ~sess'[i].running]_vars
  /\ [][\A i \in SessionIds :
          (sess[i].rpc # "none" /\ ~sess[i].running) => ~sess'[i].running]_vars
  /\ [][\A i \in SessionIds :
          sess[i].rpc = "exit" => sess'[i].rpc = "exit"]_vars
  /\ [][\A i \in SessionIds :
          (\/ ~sess[i].running /\ sess'[i].running
           \/ sess[i].rpc = "none" /\ sess'[i].rpc # "none") =>
            \E t \in Clients :
              /\ pc[t] = "cs_start"
              /\ pc'[t] = "cs_insert"
              /\ loc[t].sid = i
              /\ sess[i].rpc = "none"]_vars

\* C19 witness: the reader of a registered session has ended on a read
\* error and the session is inactive, while the port is connected again
\* through a handle the reconnect thread installed.
C19_Witness ==
  \E p \in DOMAIN sessions :
    /\ sess[sessions[p]].rpc = "exit"
    /\ ~sess[sessions[p]].running
    /\ ~sess[sessions[p]].stop
    /\ p \in DOMAIN ports
    /\ IsConnected(ports[p].handle)
    /\ ports[p].handle # 1

\* The result r carries, as UTF-8 text, exactly the bytes data.
CarriesBytes(r, data) ==
  /\ r.kind = "output"
  /\ Utf8Encode(r.data) = data
  /\ r.bytes_read = Len(data)

\* The result r is the text data decodes to, undecodable bytes replaced by
\* U+FFFD, with the number of bytes of data.
CarriesDecoded(r, data) ==
  /\ r.kind = "output"
  /\ r.data = Utf8Decode(data)
  /\ r.bytes_read = Len(data)

\* The bytes a read_output between its join and its return is to deliver.
Joined(t) ==
  IF pc[t] = "ro_join" THEN Join(sess[loc[t].sid].buffer) ELSE loc[t].result

\* C20, as claimed: what read_output returns is the concatenation of the
\* chunks buffered when it read them.
C20_ReturnsConcatenation ==
  [][\A t \in Clients :
       (Steps(t) /\ pc[t] \in {"ro_join", "ro_zero"} /\ pc'[t] = "done") =>
         CarriesBytes(loc'[t].ret, Joined(t))]_vars

\* C20: read_output returns the concatenation of the chunks buffered when
\* it reads them, in arrival order, decoded as UTF-8 with every
\* undecodable byte replaced by U+FFFD, together with the number of bytes;
\* with clear=false, and on an empty buffer, the call leaves the buffer and
\* the tracked total as they are; with clear=true it returns with the
\* buffer empty and the tracked total 0; it fails session-not-found when
\* the session map holds no session for the id, and does not look at the
\* active flag.
C20_ReadOutput ==
  /\ [][\A t \in Clients :
          (Steps(t) /\ pc[t] \in {"ro_join", "ro_zero"} /\ pc'[t] = "done") =>
            CarriesDecoded(loc'[t].ret, Joined(t))]_vars
  /\ [][\A t \in Clients :
          (Steps(t) /\ pc[t] = "ro_join") =>
            LET i == loc[t].sid
            IN /\ sess'[i].buffer = sess[i].buffer
               /\ sess'[i].size = sess[i].size
               /\ pc'[t] = "done" <=> (~loc[t].clear \/ sess[i].buffer = <<>>)
               /\ pc'[t] # "done" => loc'[t].result = Join(sess[i].buffer)]_vars
  /\ [][\A t \in Clients :
          (Steps(t) /\ pc[t] = "ro_zero") =>
            /\ sess'[loc[t].sid].buffer = <<>>
            /\ sess'[loc[t].sid].size = 0
            /\ sess'[loc[t].sid].block = "free"]_vars
  /\ [](\A t \in Clients :
          pc[t] \in {"ro_join", "ro_clear", "ro_zero"} =>
            sess[loc[t].sid].block = t)
  /\ [](\A t \in Clients :
          pc[t] = "ro_clear" => loc[t].result = Join(sess[loc[t].sid].buffer))
  /\ [][\A t \in Clients :
          (Steps(t) /\ pc[t] = "ro_get") =>
            IF loc[t].port \in DOMAIN sessions
              THEN pc'[t] = "ro_lock" /\ loc'[t].sid = sessions[loc[t].port]
              ELSE pc'[t] = "done" /\ TFailed(t, "SESSION_NOT_FOUND")']_vars

\* C20 witness: read_output with clear on a session whose reader has ended
\* on a read error has returned two replacement characters for the two
\* buffered chunks 0xFF, 2 bytes read, and the buffer is empty.
C20_Witness ==
  \E t \in Clients :
    /\ TFinishing(t, "read_output")
    /\ loc[t].clear
    /\ loc[t].ret.kind = "output"
    /\ loc[t].ret.data = <<65533, 65533>>
    /\ loc[t].ret.bytes_read = 2
    /\ ~sess[loc[t].sid].running
    /\ sess[loc[t].sid].rpc = "exit"
    /\ sess[loc[t].sid].buffer = <<>>
    /\ sess[loc[t].sid].size = 0

\* Thread t's call is past the lookup of a session.
Lookup == {"gi_get", "ro_get", "sc_get"}

\* C21: close_session fails session-not-found when the session map holds
\* no session for the id at its lookup, and no step of such a call changes
\* the map or a session object; otherwise the lookup step removes the
\* entry whether or not the session is active, an active session has its
\* flag cleared and its stop signal set before the call returns, and an
\* inactive one is one whose reader loop has ended already.  While no
\* session is registered for the id, get_session_info, read_output and
\* send_command fail session-not-found, and a create_session that finds
\* no session builds a new session object and returns its information with
\* the object registered.
C21_CloseSession ==
  /\ [][\A t \in Clients :
          (Steps(t) /\ pc[t] = "xs_pop" /\ loc[t].port \notin DOMAIN sessions) =>
            /\ pc'[t] = "t_release"
            /\ TFailed(t, "SESSION_NOT_FOUND")'
            /\ UNCHANGED <<sessions, sess, rx, tx>>]_vars
  /\ [][\A t \in Clients :
          (/\ Steps(t)
           /\ loc[t].op = "close_session"
           /\ pc[t] \in {"xs_lock", "t_release"}) =>
            UNCHANGED <<sessions, sess, rx, tx>>]_vars
  /\ [][\A t \in Clients :
          (Steps(t) /\ pc[t] = "xs_pop" /\ loc[t].port \in DOMAIN sessions) =>
            /\ sessions' = DictPop(sessions, loc[t].port)
            /\ loc'[t].sid = sessions[loc[t].port]
            /\ pc'[t] = "xs_stop"]_vars
  /\ [][\A t \in Clients :
          (Steps(t) /\ pc[t] = "xs_stop") =>
            IF sess[loc[t].sid].running
              THEN ~sess'[loc[t].sid].running /\ pc'[t] = "xs_event"
              ELSE sess[loc[t].sid].rpc = "exit" /\ pc'[t] = "t_release"]_vars
  /\ [](\A t \in Clients :
          (TFinishing(t, "close_session") /\ loc[t].ret.kind = "ok") =>
            /\ loc[t].port \notin DOMAIN sessions
            /\ ~sess[loc[t].sid].running
            /\ sess[loc[t].sid].stop \/ sess[loc[t].sid].rpc = "exit")
  /\ [][\A t \in Clients :
          (Steps(t) /\ pc[t] \in Lookup /\ loc[t].port \notin DOMAIN sessions) =>
            pc'[t] = "done" /\ TFailed(t, "SESSION_NOT_FOUND")']_vars
  /\ [][\A t \in Clients :
          (Steps(t) /\ pc[t] = "cs_check" /\ loc[t].port \notin DOMAIN sessions) =>
            /\ pc'[t] = "cs_start"
            /\ loc'[t].sid \in UnusedSessions
            /\ sess'[loc'[t].sid].port = loc[t].port]_vars
  /\ [](\A t \in Clients :
          (TFinishing(t, "create_session") /\ "sid" \in DOMAIN loc[t]) =>
            /\ loc[t].ret.kind = "info"
            /\ loc[t].port \in DOMAIN sessions
            /\ sessions[loc[t].port] = loc[t].sid)

\* C21 witness: a session that had become inactive on a read error was
\* closed, so that its stop signal was never set, and a new create_session
\* for the id has returned the information of a second session object,
\* now registered, while a lookup by another thread made in between has
\* failed session-not-found.
C21_Witness ==
  /\ TFinishing("c1", "create_session")
  /\ loc["c1"].ret.kind = "info"
  /\ loc["c1"].sid = 2
  /\ "p1" \in DOMAIN sessions
  /\ sessions["p1"] = 2
  /\ sess[1].port = "p1"
  /\ sess[1].rpc = "exit"
  /\ ~sess[1].stop
  /\ ~sess[1].running
  /\ TFinishing("c2", "get_session_info")
  /\ loc["c2"].ret.kind = "error"
  /\ TFailed("c2", "SESSION_NOT_FOUND")

\* The handle registered for the port of thread t's call answers.
PortAnswers(t) ==
  /\ loc[t].port \in DOMAIN ports
  /\ IsConnected(ports[loc[t].port].handle)

\* C22: send_data and read_data fail port-closed when the registry does
\* not hold the id at their lookup; send_data on a registered id whose
\* handle accepts the write returns the count the handle reports, the
\* length of the data it was given, and the bytes are on the wire; when the
\* handle's write raises, the call fails write-failed; the result of a
\* send_data is a count or a typed error, and no step of the call changes
\* the registry or a handle.
C22_DataTransferErrors ==
  /\ [][\A t \in Clients :
          (Steps(t) /\ pc[t] \in {"sd_send", "rd_lookup"}
             /\ loc[t].port \notin DOMAIN ports) =>
            pc'[t] = "done" /\ Failed(t, "PORT_CLOSED")']_vars
  /\ [][\A t \in Clients :
          (Steps(t) /\ pc[t] = "sd_send" /\ PortAnswers(t)) =>
            /\ loc'[t].ret = [kind |-> "ok", n |-> Len(loc[t].data)]
            /\ tx'[loc[t].port] = loc[t].data]_vars
  /\ [][\A t \in Clients :
          (/\ Steps(t)
           /\ pc[t] = "sd_send"
           /\ loc[t].port \in DOMAIN ports
           /\ ~PortAnswers(t)) =>
            /\ pc'[t] = "done"
            /\ Failed(t, "WRITE_FAILED")'
            /\ tx' = tx]_vars
  /\ [][\A t \in Clients :
          (Steps(t) /\ loc[t].op = "send_data") =>
            UNCHANGED <<ports, order, handles>>]_vars
  /\ [](\A t \in Clients :
          Finishing(t, "send_data") =>
            \/ loc[t].ret.kind = "ok"
            \/ Failed(t, "PORT_CLOSED")
            \/ Failed(t, "WRITE_FAILED"))

\* C22 witness: a send_data on a registered port whose device is gone has
\* failed write-failed, and the entry is in the registry with the
\* configuration set_config stored before.
C22_Witness ==
  \E t \in Clients :
    /\ Finishing(t, "send_data")
    /\ Failed(t, "WRITE_FAILED")
    /\ loc[t].port \in DOMAIN ports
    /\ ports[loc[t].port].config.baudrate = 19200
    /\ tx[loc[t].port] = Payload

\* The read timeout of handle h is ms milliseconds.
TimeoutIs(hs, h, ms) == hs[h].settings.timeout = <<ms, 1000>>

\* The handle h is an object with settings: it was not closed.
Live(h) == "timeout" \in DOMAIN handles[h].settings

\* The reader of session object i completes a read_data in this step.
ReaderReads(i) == sess[i].rpc = "read" /\ sess'[i].rpc # "read"

\* C23: between the override and the end of a read_data(id, timeout_ms=t)
\* no step of the call touches the handle but the override, which sets its
\* read timeout to t; the step that ends the call, with the bytes or with
\* the error of a read that raised, leaves the read timeout of the handle
\* at the read_timeout_ms of the connection's stored configuration; no
\* step of a read_data changes the registry, and none changes a setting of
\* a handle other than the read timeout.  Every read of a reader loop
\* likewise leaves the handle of its port with the configured read timeout
\* and the registry as it was.
C23_ReadTimeoutRestored ==
  /\ [][\A t \in Clients :
          (Steps(t) /\ pc[t] = "rd_override" /\ Live(loc[t].h)) =>
            TimeoutIs(handles', loc[t].h, loc[t].timeout_ms[1])]_vars
  /\ [][\A t \in Clients :
          (Steps(t) /\ pc[t] = "rd_restore" /\ Live(loc[t].h)) =>
            /\ pc'[t] = "done"
            /\ loc'[t].ret = loc[t].result
            /\ TimeoutIs(handles', loc[t].h, Configured(t).read_timeout_ms)]_vars
  /\ [][\A t \in Clients :
          (Steps(t) /\ loc[t].op = "read_data" /\ pc'[t] = "done") =>
            pc[t] \in {"rd_lookup", "rd_restore"} \/ loc[t].timeout_ms = <<>>]_vars
  /\ [][\A t \in Clients :
          (Steps(t) /\ loc[t].op = "read_data") =>
            /\ UNCHANGED <<ports, order>>
            /\ \A h \in HandleIds :
                 \/ handles'[h] = handles[h]
                 \/ /\ h = loc[t].h
                    /\ handles'[h] =
                         [handles[h] EXCEPT !.settings.timeout = handles'[h].settings.timeout]]_vars
  /\ [][\A i \in SessionIds :
          ReaderReads(i) =>
            /\ UNCHANGED <<ports, order>>
            /\ \A p \in DOMAIN ports :
                 Live(ports[p].handle) =>
                   (TimeoutIs(handles, ports[p].handle, ports[p].config.read_timeout_ms)
                      => handles' = handles)]_vars

\* C23 witness: a read_data with a timeout of 500 ms has failed on a port
\* whose device is gone, after set_config had stored a read timeout of 0:
\* the handle's read timeout is 0, while the reader loop of the port's
\* session has ended on its own failed read.
C23_Witness ==
  \E t \in Clients :
    /\ Finishing(t, "read_data")
    /\ loc[t].timeout_ms = <<500>>
    /\ loc[t].ret.kind = "error"
    /\ Failed(t, "READ_FAILED")
    /\ loc[t].port \in DOMAIN ports
    /\ ports[loc[t].port].config.read_timeout_ms = 0
    /\ TimeoutIs(handles, ports[loc[t].port].handle, 0)
    /\ \E i \in SessionIds : sess[i].port = loc[t].port /\ sess[i].rpc = "exit"

\* The kinds of the values the operations return.
ResultKinds == {"status", "ok", "ports", "info", "sent", "output"}

\* C24: whatever a call of open_port, close_port, set_config or get_status
\* has produced when it ends is a result or an error of the catalogue,
\* also when the device behind the handle is gone: no exception of the
\* handle reaches the caller.
C24_TypedResults ==
  \A t \in Clients :
    "ret" \in DOMAIN loc[t] =>
      \/ loc[t].ret.kind \in ResultKinds
      \/ loc[t].ret.kind = "error" /\ loc[t].ret.code \in ErrorCode

(* ---------------------------------------------------------------------- *)
(* Specification: stopping.  One client thread opens the port with         *)
(* auto-reconnect and creates a session; another closes the session and    *)
(* shuts both managers down; the reader thread and the reconnect thread    *)
(* run; the device is lost.  Every thread that can take a                  *)
(* step eventually takes one, and a thread that waits for a lock that is   *)
(* free again and again eventually gets it; no client is obliged to call   *)
(* ---------------------------------------------------------------------- *)
OpenerStep(t) ==
  \/ (OpenPortCheck(t) \/ OpenPortCreate(t) \/ OpenPortInsert(t)) /\ UNCHANGED tvars
  \/ CreateStep(t) /\ UNCHANGED svars

StopperStep(t) ==
  \/ (CloseStep(t) \/ TShutdownStep(t)) /\ UNCHANGED svars
  \/ (TAcquire(t) \/ TRelease(t)) /\ UNCHANGED svars
  \/ ShutdownStep(t) /\ UNCHANGED tvars

LockStep(t) == (AcquireLock(t) \/ ReleaseLock(t)) /\ UNCHANGED tvars

ReaderIdle(i) ==
  (ReaderCheck(i) \/ ReaderRead(i) \/ ReaderWait(i)) /\ UNCHANGED svars

NextF ==
  \/ \E p \in OpenablePorts : OpenPortCall("c1", p, DefaultArgs, TRUE) /\ UNCHANGED tvars
  \/ \E p \in OpenablePorts :
       /\ UnusedSessions = SessionIds
       /\ CreateSessionCall("c1", p, "crlf", FALSE, 2)
       /\ UNCHANGED svars
  \/ OpenerStep("c1")
  \/ \E p \in OpenablePorts : CloseSessionCall("c2", p) /\ UNCHANGED svars
  \/ TShutdownCall("c2") /\ UNCHANGED svars
  \/ ShutdownCall("c2") /\ UNCHANGED tvars
  \/ StopperStep("c2")
  \/ \E t \in Threads : LockStep(t)
  \/ \E t \in Clients : Return(t) /\ UNCHANGED tvars
  \/ SupStep /\ UNCHANGED tvars
  \/ \E i \in SessionIds : ReaderIdle(i)
  \/ \E p \in OpenablePorts : DeviceLost(p) /\ UNCHANGED tvars

Fairness ==
  /\ SF_vars(OpenerStep("c1") \/ LockStep("c1") \/ (Return("c1") /\ UNCHANGED tvars))
  /\ SF_vars(StopperStep("c2") \/ LockStep("c2") \/ (Return("c2") /\ UNCHANGED tvars))
  /\ SF_vars((SupStep /\ UNCHANGED tvars) \/ LockStep(Sup))
  /\ \A i \in SessionIds : SF_vars(ReaderIdle(i))

SpecF == Init /\ [][NextF]_vars /\ Fairness

(* ---------------------------------------------------------------------- *)
(* Specification: reconnecting.  A client thread opens the port with       *)
(* auto-reconnect, closes it and asks for its status; the reconnect thread *)
(* runs; the device is lost and comes back.  The reconnect thread and the  *)
(* client, once inside a call, eventually take their next step, and get    *)
(* a lock that is free again and again; the client is not obliged to call  *)
(* ---------------------------------------------------------------------- *)
RegistryStep(t) ==
  \/ OpenPortCheck(t)
  \/ OpenPortCreate(t)
  \/ OpenPortInsert(t)
  \/ ClosePortPop(t)
  \/ ClosePortSerial(t)
  \/ GetStatusRead(t)
  \/ Return(t)

NextW ==
  \/ \E p \in OpenablePorts : OpenPortCall("c1", p, DefaultArgs, TRUE) /\ UNCHANGED tvars
  \/ \E p \in OpenablePorts : ClosePortCall("c1", p) /\ UNCHANGED tvars
  \/ \E p \in OpenablePorts : GetStatusCall("c1", p) /\ UNCHANGED tvars
  \/ RegistryStep("c1") /\ UNCHANGED tvars
  \/ \E t \in Threads : LockStep(t)
  \/ SupStep /\ UNCHANGED tvars
  \/ \E p \in OpenablePorts : DeviceLost(p) /\ UNCHANGED tvars
  \/ \E p \in OpenablePorts : DeviceBack(p) /\ UNCHANGED tvars

FairnessW ==
  /\ SF_vars((RegistryStep("c1") /\ UNCHANGED tvars) \/ LockStep("c1"))
  /\ SF_vars((SupStep /\ UNCHANGED tvars) \/ LockStep(Sup))

SpecW == Init /\ [][NextW]_vars /\ FairnessW

(* ---------------------------------------------------------------------- *)
(* Specification: the reader and the input of the port.  A client thread   *)
(* opens the port, creates sessions and closes them; the reader threads    *)
(* run; the device sends bytes                                             *)
(* ---------------------------------------------------------------------- *)
NextE ==
  \/ OpenStep("c1") /\ UNCHANGED tvars
  \/ \E p \in OpenablePorts :
       CreateSessionCall("c1", p, "crlf", FALSE, BufferSize) /\ UNCHANGED svars
  \/ CreateStep("c1") /\ UNCHANGED svars
  \/ \E p \in OpenablePorts : CloseSessionCall("c1", p) /\ UNCHANGED svars
  \/ CloseStep("c1") /\ UNCHANGED svars
  \/ Return("c1") /\ UNCHANGED tvars
  \/ \E i \in SessionIds : ReaderStep(i) /\ UNCHANGED svars
  \/ \E p \in OpenablePorts, d \in Chunks : DeviceSends(p, d) /\ UNCHANGED svars

SpecE == Init /\ [][NextE]_vars

(* ---------------------------------------------------------------------- *)
(* ConfigManager.reload and BlacklistManager.reload                        *)
(* ---------------------------------------------------------------------- *)
\* Environment: the configuration file is written, removed or chmod-ed.
WriteConfigFile(f) ==
  /\ cfg' = [cfg EXCEPT !.cfile = f]
  /\ UNCHANGED <<ports, order, handles, deviceOk, lock, pc, loc, sup,
                 sessions, sess, tlock, rx, tx>>

\* Environment: the blacklist file is written, removed or chmod-ed, or the
\* medium under it starts failing.
WriteBlacklistFile(f) ==
  /\ cfg' = [cfg EXCEPT !.bfile = f]
  /\ UNCHANGED <<ports, order, handles, deviceOk, lock, pc, loc, sup,
                 sessions, sess, tlock, rx, tx>>

ConfigReloadCall(t) ==
  /\ pc[t] = "idle"
  /\ SetLoc(t, [op |-> "config_reload"])
  /\ Goto(t, "cr_load")
  /\ UNCHANGED <<ports, order, handles, deviceOk, lock, sup,
                 sessions, sess, tlock, rx, tx, cfg>>

\* Variant: a failed load leaves the defaults.
ConfigReloadResets(t) ==
  /\ pc[t] = "cr_load"
  /\ LET r == LoadConfigFromFile(cfg.cfile)
     IN IF r.kind = "error"
          THEN /\ cfg' = [cfg EXCEPT !.config = UartConfig]
               /\ SetRet(t, r)
          ELSE /\ cfg' = [cfg EXCEPT !.config = r.config]
               /\ SetRet(t, [kind |-> "ok"])
  /\ Goto(t, "done")
  /\ UNCHANGED <<ports, order, handles, deviceOk, lock, sup,
                 sessions, sess, tlock, rx, tx>>

\* The with block of reload: the new configuration replaces the old one
\* once it is parsed; an exception puts the old one back and is raised.
ConfigReload(t) ==
  /\ pc[t] = "cr_load"
  /\ LET old_config == cfg.config
         r == LoadConfigFromFile(cfg.cfile)
     IN IF r.kind = "error"
          THEN /\ cfg' = [cfg EXCEPT !.config = old_config]
               /\ SetRet(t, r)
          ELSE /\ cfg' = [cfg EXCEPT !.config = r.config]
               /\ SetRet(t, [kind |-> "ok"])
  /\ Goto(t, "done")
  /\ UNCHANGED <<ports, order, handles, deviceOk, lock, sup,
                 sessions, sess, tlock, rx, tx>>

BlacklistReloadCall(t) ==
  /\ pc[t] = "idle"
  /\ SetLoc(t, [op |-> "blacklist_reload"])
  /\ Goto(t, "br_load")
  /\ UNCHANGED <<ports, order, handles, deviceOk, lock, sup,
                 sessions, sess, tlock, rx, tx, cfg>>

\* The with block of reload: copies of the rules, clear(), _load_blacklist;
\* an exception puts the copies back and is raised.
BlacklistReload(t) ==
  /\ pc[t] = "br_load"
  /\ LET old_rules == cfg.rules
         r == LoadBlacklist(NoRules, cfg.bfile)
     IN IF r.raised # "none"
          THEN /\ cfg' = [cfg EXCEPT !.rules = old_rules]
               /\ SetRet(t, [kind |-> "error", type |-> r.raised])
          ELSE /\ cfg' = [cfg EXCEPT !.rules = r.rules]
               /\ SetRet(t, [kind |-> "ok"])
  /\ Goto(t, "done")
  /\ UNCHANGED <<ports, order, handles, deviceOk, lock, sup,
                 sessions, sess, tlock, rx, tx>>

(* ---------------------------------------------------------------------- *)
(* Specification: reloading.  The files change in any way; a thread        *)
(* reloads the configuration and the blacklist                             *)
(* ---------------------------------------------------------------------- *)
NextP ==
  \/ \E f \in ConfigFiles : WriteConfigFile(f)
  \/ \E f \in BlacklistFiles : WriteBlacklistFile(f)
  \/ ConfigReloadCall("c1")
  \/ ConfigReload("c1")
  \/ BlacklistReloadCall("c1")
  \/ BlacklistReload("c1")
  \/ Return("c1") /\ UNCHANGED tvars

SpecP == Init /\ [][NextP]_vars

(* ---------------------------------------------------------------------- *)
(* server.handle_call_tool                                                 *)
(* ---------------------------------------------------------------------- *)
ToolNames ==
  {"list_ports", "open_port", "close_port", "set_config", "get_status",
   "send_data", "read_data", "create_session", "close_session",
   "send_command", "read_output", "list_sessions", "get_session_info",
   "clear_buffer"}

\* int(ErrorCode)
ErrorNumber ==
  [PORT_NOT_FOUND |-> 1001, PORT_BUSY |-> 1002, PORT_OPEN_FAILED |-> 1003,
   PORT_CLOSED |-> 1004, INVALID_PARAM |-> 1005, READ_TIMEOUT |-> 1006,
   WRITE_FAILED |-> 1007, PERMISSION_DENIED |-> 1008,
   PORT_BLACKLISTED |-> 1009, SESSION_EXISTS |-> 2001,
   SESSION_NOT_FOUND |-> 2002, PORT_NOT_OPEN |-> 2003,
   SESSION_CLOSED |-> 2004, SEND_COMMAND_FAILED |-> 2005,
   INVALID_LINE_ENDING |-> 2006]

\* json.dumps(x, ensure_ascii=False): the text of a JSON document
JsonDumps(x) == [json |-> x]

TextContent(text) == [type |-> "text", text |-> text]

\* SerialError.to_dict()
ToDict(e) == [error |-> [code |-> ErrorNumber[e.code], message |-> e.code]]

\* Variant: an exception that is not a SerialError leaves the handler.
CallToolResultReraises(ret) ==
  IF ret.kind = "error" THEN <<TextContent(JsonDumps(ToDict(ret)))>>
  ELSE IF ret.kind = "raised" THEN <<>>
  ELSE <<TextContent(JsonDumps(ret))>>

\* What handle_call_tool returns for what the operation returned or raised:
\* the except SerialError branch, the except Exception branch, the end of
\* the try block.
CallToolResult(ret) ==
  IF ret.kind = "error" THEN <<TextContent(JsonDumps(ToDict(ret)))>>
  ELSE IF ret.kind = "raised"
    THEN <<TextContent(JsonDumps(
             [error |-> [code |-> -1, message |-> ret.code]]))>>
  ELSE <<TextContent(JsonDumps(ret))>>

\* The else branch of the dispatch: raise ValueError
HandleCallToolUnknown(t, name) ==
  /\ pc[t] = "idle"
  /\ name \notin ToolNames
  /\ loc' = [loc EXCEPT ![t] =
               [op |-> "call_tool", name |-> name,
                ret |-> [kind |-> "raised", code |-> "ValueError"]]]
  /\ Goto(t, "done")
  /\ UNCHANGED <<ports, order, handles, deviceOk, lock, sup>>

\* tool(**arguments) with arguments that do not fit the tool's parameters:
\* TypeError
HandleCallToolBadArguments(t, name) ==
  /\ pc[t] = "idle"
  /\ name \in ToolNames \ {"list_ports", "list_sessions"}
  /\ loc' = [loc EXCEPT ![t] =
               [op |-> "call_tool", name |-> name,
                ret |-> [kind |-> "raised", code |-> "TypeError"]]]
  /\ Goto(t, "done")
  /\ UNCHANGED <<ports, order, handles, deviceOk, lock, sup>>

\* The operation has returned or raised: the handler builds its answer.
HandleCallToolReturn(t) ==
  /\ "ret" \in DOMAIN loc[t]
  /\ "response" \notin DOMAIN loc[t]
  /\ loc' = [loc EXCEPT ![t] = @ @@ [response |-> CallToolResult(@.ret)]]
  /\ UNCHANGED <<ports, order, handles, deviceOk, lock, pc, sup>>

Answered(t) == "response" \in DOMAIN loc[t]

(* ---------------------------------------------------------------------- *)
(* Specification: tool calls.  A client calls open_port, close_port,       *)
(* set_config and get_status through handle_call_tool, and also tools that *)
(* do not exist and tools with arguments that do not fit; the device is    *)
(* lost and comes back                                                     *)
(* ---------------------------------------------------------------------- *)
NextH ==
  \/ \E p \in PortIds, c \in OpenCalls :
       OpenPortCall("c1", p, c[1], c[2]) /\ UNCHANGED tvars
  \/ (OpenPortCheck("c1") \/ OpenPortCreate("c1") \/ OpenPortInsert("c1")) /\ UNCHANGED tvars
  \/ \E p \in OpenablePorts : ClosePortCall("c1", p) /\ UNCHANGED tvars
  \/ (ClosePortPop("c1") \/ ClosePortSerial("c1")) /\ UNCHANGED tvars
  \/ \E p \in OpenablePorts, f \in SetArgSet :
       SetConfigCall("c1", p, f) /\ UNCHANGED tvars
  \/ (SetConfigLookup("c1") \/ SetConfigApply("c1") \/ SetConfigStore("c1")) /\ UNCHANGED tvars
  \/ \E p \in OpenablePorts : GetStatusCall("c1", p) /\ UNCHANGED tvars
  \/ GetStatusRead("c1") /\ UNCHANGED tvars
  \/ \E name \in {"reset_port", ""} :
       HandleCallToolUnknown("c1", name) /\ UNCHANGED tvars
  \/ \E name \in {"open_port", "get_status"} :
       HandleCallToolBadArguments("c1", name) /\ UNCHANGED tvars
  \/ HandleCallToolReturn("c1") /\ UNCHANGED tvars
  \/ AcquireLock("c1") /\ UNCHANGED tvars
  \/ Answered("c1") /\ ReleaseLock("c1") /\ UNCHANGED tvars
  \/ Answered("c1") /\ Return("c1") /\ UNCHANGED tvars
  \/ \E p \in OpenablePorts : DeviceLost(p) /\ UNCHANGED tvars
  \/ \E p \in OpenablePorts : DeviceBack(p) /\ UNCHANGED tvars

SpecH == Init /\ [][NextH]_vars

(* ---------------------------------------------------------------------- *)
(* Specification: probe failures.  The client, the reconnect thread and    *)
(* the device of Spec, with a driver that can also answer the probe with   *)
(* an exception that is neither SerialException nor OSError                *)
(* ---------------------------------------------------------------------- *)
NextX ==
  \/ ClientStep("c1") /\ UNCHANGED tvars
  \/ SupStep /\ UNCHANGED tvars
  \/ \E t \in Threads : AcquireLock(t) /\ UNCHANGED tvars
  \/ \E t \in Threads : ReleaseLock(t) /\ UNCHANGED tvars
  \/ \E p \in OpenablePorts : DeviceLost(p) /\ UNCHANGED tvars
  \/ \E p \in OpenablePorts : DeviceBack(p) /\ UNCHANGED tvars
  \/ \E p \in OpenablePorts : DeviceFaults(p) /\ UNCHANGED tvars

SpecX == Init /\ [][NextX]_vars

(* ---------------------------------------------------------------------- *)
(* Specification: two ports.  A client thread opens two ports with         *)
(* auto-reconnect and closes them; the reconnect thread runs; the device   *)
(* of the first is lost and comes back; the driver of the second starts    *)
(* to answer the probe with an exception that is neither SerialException   *)
(* nor OSError                                                             *)
(* ---------------------------------------------------------------------- *)
\* The port whose device is lost, and the port whose probe raises.
LostPort == "p1"

FaultyPort == "p2"

TwoPorts == {LostPort, FaultyPort}

InitZ ==
  /\ TermInit
  /\ CfgInit
  /\ ports = [q \in {} |-> Idle]
  /\ order = <<>>
  /\ handles = [h \in HandleIds |-> NoSerial]
  /\ deviceOk = [p \in PortIds \cup TwoPorts |-> TRUE]
  /\ lock = "free"
  /\ pc = [t \in Threads |-> IF t = Sup THEN "sup_sleep" ELSE "idle"]
  /\ loc = [t \in Clients |-> Idle]
  /\ sup = [queue |-> <<>>, cur |-> NoAttempt, newh |-> 0, running |-> TRUE]

NextZ ==
  \/ \E p \in TwoPorts : OpenPortCall("c1", p, DefaultArgs, TRUE) /\ UNCHANGED tvars
  \/ \E p \in TwoPorts : ClosePortCall("c1", p) /\ UNCHANGED tvars
  \/ RegistryStep("c1") /\ UNCHANGED tvars
  \/ \E t \in Threads : LockStep(t)
  \/ SupStep /\ UNCHANGED tvars
  \/ DeviceLost(LostPort) /\ UNCHANGED tvars
  \/ DeviceBack(LostPort) /\ UNCHANGED tvars
  \/ DeviceFaults(FaultyPort) /\ UNCHANGED tvars

SpecZ == InitZ /\ [][NextZ]_vars /\ FairnessW

(* ---------------------------------------------------------------------- *)
(* Specification: shutting down.  One client thread opens the port with    *)
(* auto-reconnect and creates a session; another closes the session and    *)
(* shuts both managers down; the reader thread and the reconnect thread    *)
(* run; the device is lost and comes back.  SerialManager.shutdown is the  *)
(* last call made on the registry: it is called when no open_port is in    *)
(* flight and no open_port is called after it                              *)
(* ---------------------------------------------------------------------- *)
NextQ ==
  \/ \E p \in OpenablePorts :
       /\ sup.running
       /\ pc["c2"] # "sh_stop"
       /\ OpenPortCall("c1", p, DefaultArgs, TRUE)
       /\ UNCHANGED tvars
  \/ \E p \in OpenablePorts :
       /\ UnusedSessions = SessionIds
       /\ CreateSessionCall("c1", p, "crlf", FALSE, 2)
       /\ UNCHANGED svars
  \/ OpenerStep("c1")
  \/ \E p \in OpenablePorts : CloseSessionCall("c2", p) /\ UNCHANGED svars
  \/ TShutdownCall("c2") /\ UNCHANGED svars
  \/ /\ sup.running
     /\ pc["c1"] = "idle"
     /\ ShutdownCall("c2")
     /\ UNCHANGED tvars
  \/ StopperStep("c2")
  \/ \E t \in Threads : LockStep(t)
  \/ \E t \in Clients : Return(t) /\ UNCHANGED tvars
  \/ SupStep /\ UNCHANGED tvars
  \/ \E i \in SessionIds : ReaderIdle(i)
  \/ \E p \in OpenablePorts : DeviceLost(p) /\ UNCHANGED tvars
  \/ \E p \in OpenablePorts : DeviceBack(p) /\ UNCHANGED tvars

SpecQ == Init /\ [][NextQ]_vars

(* ---------------------------------------------------------------------- *)
(* Specification: handles.  A client thread calls open_port, close_port,   *)
(* set_config and get_status; another shuts the registry down; the         *)
(* reconnect thread runs; the device is lost and comes back                *)
(* ---------------------------------------------------------------------- *)
NextG ==
  \/ ClientStep("c1") /\ UNCHANGED tvars
  \/ ShutdownCall("c2") /\ UNCHANGED tvars
  \/ ShutdownStep("c2") /\ UNCHANGED tvars
  \/ SupStep /\ UNCHANGED tvars
  \/ \E t \in Threads : AcquireLock(t) /\ UNCHANGED tvars
  \/ \E t \in Threads : ReleaseLock(t) /\ UNCHANGED tvars
  \/ \E p \in OpenablePorts : DeviceLost(p) /\ UNCHANGED tvars
  \/ \E p \in OpenablePorts : DeviceBack(p) /\ UNCHANGED tvars

SpecG == Init /\ [][NextG]_vars

(* ---------------------------------------------------------------------- *)
(* Specification: a reader that has ended.  One client thread opens and    *)
(* closes the port, creates a session and calls create_session again      *)
(* while it is registered; another asks for the session's information,     *)
(* reads its output without clearing it and closes it; the reader thread   *)
(* runs; the device sends a byte                                           *)
(* ---------------------------------------------------------------------- *)
NextY ==
  \/ OpenStep("c1") /\ UNCHANGED tvars
  \/ \E p \in OpenablePorts : ClosePortCall("c1", p) /\ UNCHANGED tvars
  \/ (ClosePortPop("c1") \/ ClosePortSerial("c1")) /\ UNCHANGED tvars
  \/ \E p \in OpenablePorts :
       /\ UnusedSessions = SessionIds \/ p \in DOMAIN sessions
       /\ CreateSessionCall("c1", p, "crlf", FALSE, BufferSize)
       /\ UNCHANGED svars
  \/ CreateStep("c1") /\ UNCHANGED svars
  \/ \E p \in OpenablePorts : GetSessionInfoCall("c2", p) /\ UNCHANGED svars
  \/ (GetSessionInfoGet("c2") \/ GetSessionInfoInfo("c2")) /\ UNCHANGED svars
  \/ \E p \in OpenablePorts : ReadOutputCall("c2", p, FALSE) /\ UNCHANGED svars
  \/ (ReadOutputGet("c2") \/ ReadOutputLock("c2") \/ ReadOutputJoin("c2"))
       /\ UNCHANGED svars
  \/ \E p \in DOMAIN sessions :
       /\ sess[sessions[p]].rpc = "exit"
       /\ CloseSessionCall("c2", p)
       /\ UNCHANGED svars
  \/ CloseStep("c2") /\ UNCHANGED svars
  \/ (TAcquire("c2") \/ TRelease("c2")) /\ UNCHANGED svars
  \/ \E t \in Clients : Return(t) /\ UNCHANGED tvars
  \/ \E i \in SessionIds : ReaderStep(i) /\ UNCHANGED svars
  \/ \E p \in OpenablePorts : DeviceSends(p, <<65>>) /\ UNCHANGED svars

SpecY == Init /\ [][NextY]_vars

(* ---------------------------------------------------------------------- *)
(* Lock order                                                              *)
(* ---------------------------------------------------------------------- *)
WaitsRegistry(t) ==
  pc[t] \in DOMAIN LockEntry
           \cup {"sup_sleep", "cs_status", "sc_send", "sd_send", "rd_lookup"}

WaitsTerminal(t) ==
  pc[t] \in DOMAIN TLockEntry \cup {"sc_get", "ro_get", "cb_get", "gi_get"}

WaitsBuffer(t) ==
  pc[t] \in {"cs_info", "sc_echo", "ro_lock", "cb_lock", "gi_info", "ls_info"}

HoldsBuffer(t) == \E i \in SessionIds : sess[i].block = t

StepK(t) ==
  \/ OpenPortCheck(t)
  \/ OpenPortCreate(t)
  \/ OpenPortInsert(t)
  \/ AcquireLock(t)
  \/ ReleaseLock(t)
  \/ t = Sup /\ SupStep
  \/ t \in Clients /\ CreateStep(t)
  \/ t \in Clients /\ SendStep(t)
  \/ t \in Clients /\ CloseStep(t)
  \/ t \in Clients /\ ListSessionsInfo(t)
  \/ t \in Clients /\ Return(t)

(* C25: no thread waits for the registry lock of the connections while it  *)
(* holds the lock of the terminal registry or a buffer lock, nor for the   *)
(* lock of the terminal registry while it holds the registry lock of the   *)
(* connections or a buffer lock; a thread that holds the registry lock or  *)
(* a buffer lock can always take its next step, and a thread that holds    *)
(* the lock of the terminal registry can take its next step unless it      *)
(* waits for a buffer lock that another thread holds: no deadlock          *)
C25_LockOrder ==
  /\ \A t \in Threads :
       WaitsRegistry(t) => tlock # t /\ ~HoldsBuffer(t)
  /\ \A t \in Threads :
       WaitsTerminal(t) => lock # t /\ ~HoldsBuffer(t)
  /\ \A i \in SessionIds :
       sess[i].rpc = "read" => sess[i].block # "reader"
  /\ \A t \in Threads :
       lock = t \/ HoldsBuffer(t) => ENABLED StepK(t)
  /\ \A i \in SessionIds :
       sess[i].block = "reader" => ENABLED ReaderStep(i)
  /\ \A t \in Threads :
       tlock = t =>
         \/ ENABLED StepK(t)
         \/ /\ WaitsBuffer(t)
            /\ \E i \in SessionIds : sess[i].block \notin {"free", t}

C25_Witness ==
  /\ pc["c2"] = "ls_info"
  /\ tlock = "c2"
  /\ \E i \in SessionIds : sess[i].block = "reader"
  /\ pc["c1"] = "sc_get"
  /\ lock = Sup

(* ---------------------------------------------------------------------- *)
(* Stopping                                                                *)
(* ---------------------------------------------------------------------- *)
Stopping == {"xs_lock", "xs_pop", "xs_stop", "xs_event", "xs_join",
             "ts_lock", "ts_snapshot", "ts_next", "ts_stop", "ts_event",
             "ts_join", "ts_clear", "sh_stop", "sh_join", "sh_lock",
             "sh_close"}

\* The reader of session i was told to stop, or has ended by itself.
Stopped(i) ==
  /\ ~sess'[i].running
  /\ sess'[i].stop \/ sess'[i].rpc = "exit"

CloseSessionEnds(t) ==
  /\ pc[t] \in {"xs_stop", "xs_join"}
  /\ pc'[t] = "t_release"

(* C26: a close_session, a TerminalManager.shutdown and a                  *)
(* SerialManager.shutdown that have started always come to their end; the  *)
(* bounded joins can always be left, whatever the reader loop or the       *)
(* reconnect thread is doing; when close_session ends its session has the  *)
(* stop signal (or its reader has ended by itself) and is out of the map,  *)
(* when TerminalManager.shutdown clears the map every session of it has    *)
(* the stop signal (or its reader has ended by itself), and when           *)
(* SerialManager.shutdown clears the registry the run flag is false        *)
C26_StopsComplete ==
  /\ \A t \in Clients : (pc[t] \in Stopping) ~> (pc[t] = "idle")
  /\ [](\A t \in Clients :
          /\ pc[t] = "xs_join" => ENABLED CloseSessionJoin(t)
          /\ pc[t] = "ts_join" => ENABLED TShutdownJoin(t)
          /\ pc[t] = "sh_join" => ENABLED ShutdownJoin(t))
  /\ [][\A t \in Clients :
          CloseSessionEnds(t) =>
            /\ Stopped(loc[t].sid)
            /\ loc[t].port \notin DOMAIN sessions']_vars
  /\ [][\A t \in Clients :
          pc[t] = "ts_clear" /\ pc'[t] # "ts_clear" =>
            /\ \A p \in DOMAIN sessions : Stopped(sessions[p])
            /\ DOMAIN sessions' = {}]_vars
  /\ [][\A t \in Clients :
          pc[t] = "sh_close" /\ pc'[t] # "sh_close" =>
            /\ ~sup.running
            /\ DOMAIN ports' = {}]_vars

\* close_session has ended while the reader it stopped is still in its
\* loop, and SerialManager.shutdown has cleared a registry that held a port
\* while the reconnect thread is still in an attempt.
C26_Witness ==
  /\ pc["c2"] = "release"
  /\ loc["c2"].op = "shutdown"
  /\ DOMAIN ports = {}
  /\ pc[Sup] \in {"sup_create", "sup_fail_lock", "sup_fail", "sup_next"}
  /\ \E i \in SessionIds :
       /\ sess[i].stop
       /\ sess[i].rpc \notin {"exit", "none"}

(* ---------------------------------------------------------------------- *)
(* Reconnecting                                                            *)
(* ---------------------------------------------------------------------- *)
\* p is registered for auto-reconnect and its handle fails the probe.
Wanted(p) ==
  /\ p \in DOMAIN ports
  /\ ports[p].auto_reconnect
  /\ ~IsConnected(ports[p].handle)

\* The device of p is there, p is registered for auto-reconnect and a
\* handle can be created.
Recoverable(p) ==
  /\ deviceOk[p]
  /\ p \in DOMAIN ports
  /\ ports[p].auto_reconnect
  /\ FreeSlots # {}

Recovered(p) ==
  /\ p \in DOMAIN ports
  /\ IsConnected(ports[p].handle)
  /\ ~ports[p].reconnecting

AttemptFails == pc[Sup] = "sup_fail" /\ pc'[Sup] # "sup_fail"

Served(p) ==
  /\ p \in DOMAIN ports
  /\ p \in DOMAIN sessions
  /\ sess[sessions[p]].running

(* C28: while a port is open and has an active session, the bytes that     *)
(* leave the input of the port are taken by the reader of that session,    *)
(* all of them and as they came, and the reader appends what it took to    *)
(* the end of that session's buffer                                        *)
C28_ReaderDelivers ==
  /\ [][\A p \in OpenablePorts :
          Served(p) /\ rx[p] # <<>> /\ rx'[p] # rx[p] =>
            /\ sess'[sessions[p]].rpc = "ap_lock"
            /\ sess'[sessions[p]].data = rx[p]]_vars
  /\ [][\A i \in SessionIds :
          sess[i].rpc = "ap_push" /\ sess'[i].rpc # "ap_push" =>
            sess'[i].buffer = Append(sess[i].buffer, sess[i].data)]_vars

(* ---------------------------------------------------------------------- *)
(* Reloading                                                               *)
(* ---------------------------------------------------------------------- *)
\* The value the document gives for a key, or the default.
Given(x, default) == IF x = Absent THEN default ELSE x.v

\* The configuration file cannot be loaded: wrong permissions, a decode
\* error or a value of the wrong type.
ConfigFileBad(f) ==
  /\ f.exists
  /\ \/ f.mode # OwnerOnly
     \/ f.doc.error
     \/ f.doc.baudrate.type \in {"str"}
     \/ f.doc.read_timeout.type \in {"str"}
     \/ f.doc.auto_reconnect.type \in {"int", "str"}

\* The blacklist file cannot be loaded: wrong permissions or a read error.
BlacklistFileBad(f) ==
  /\ f.exists
  /\ f.mode # OwnerOnly \/ f.readable < Len(f.lines)

\* The entries of the blacklist file: its lines without surrounding blanks,
\* but for the empty ones and the comments.
Entries(f) ==
  IF f.exists
    THEN {Strip(f.lines[k]) : k \in {j \in 1..Len(f.lines) :
                                      /\ Strip(f.lines[j]) # <<>>
                                      /\ Head(Strip(f.lines[j])) # "#"}}
    ELSE {}

Range(q) == {q[k] : k \in 1..Len(q)}

(* C29: a reload of the configuration whose file cannot be loaded raises   *)
(* and leaves the configuration as it was, and one whose file can be       *)
(* loaded leaves the values of the file, with the defaults for what the    *)
(* file does not give; a reload of the blacklist whose file cannot be      *)
(* loaded raises and leaves the rules as they were, and one whose file     *)
(* can be loaded leaves the entries of the file as the rules               *)
C29_ReloadAllOrNothing ==
  /\ [][\A t \in Clients :
          pc[t] = "cr_load" /\ pc'[t] # "cr_load" =>
            IF ConfigFileBad(cfg.cfile)
              THEN /\ loc'[t].ret.kind = "error"
                   /\ cfg'.config = cfg.config
              ELSE /\ loc'[t].ret.kind = "ok"
                   /\ cfg'.config =
                        IF cfg.cfile.exists
                          THEN [baudrate |->
                                  Given(cfg.cfile.doc.baudrate, 115200),
                                read_timeout |->
                                  Given(cfg.cfile.doc.read_timeout, 1000),
                                auto_reconnect |->
                                  Given(cfg.cfile.doc.auto_reconnect, TRUE)]
                          ELSE UartConfig]_vars
  /\ [][\A t \in Clients :
          pc[t] = "br_load" /\ pc'[t] # "br_load" =>
            IF BlacklistFileBad(cfg.bfile)
              THEN /\ loc'[t].ret.kind = "error"
                   /\ cfg'.rules = cfg.rules
              ELSE /\ loc'[t].ret.kind = "ok"
                   /\ cfg'.rules.exact \cup Range(cfg'.rules.patterns)
                        \subseteq Entries(cfg.bfile)
                   /\ \A e \in Entries(cfg.bfile) :
                        \/ e \in cfg'.rules.exact
                        \/ e \in Range(cfg'.rules.patterns)
                        \/ IsRegex(e) /\ ~Compiles(e)]_vars

\* A reload of the blacklist has failed with rules loaded before, under
\* a configuration loaded before.
C29_Witness ==
  /\ pc["c1"] = "done"
  /\ loc["c1"].op = "blacklist_reload"
  /\ loc["c1"].ret.kind = "error"
  /\ cfg.config # UartConfig
  /\ cfg.rules # NoRules

(* ---------------------------------------------------------------------- *)
(* Tool calls                                                              *)
(* ---------------------------------------------------------------------- *)
\* The JSON document of the one text item of an answer.
Document(t) == loc[t].response[1].text.json

(* C30: an operation called through handle_call_tool ends with a result    *)
(* or an exception, and the handler then always has an answer; the answer  *)
(* is one text item; it holds the result when the operation returned, the  *)
(* number and the message of the error when the operation raised a         *)
(* SerialError, and an error with code -1 when the tool does not exist or  *)
(* the operation raised anything else                                      *)
C30_CallToolAnswers ==
  \A t \in Clients :
    /\ pc[t] \in {"release", "done"} => "ret" \in DOMAIN loc[t]
    /\ "ret" \in DOMAIN loc[t] /\ ~Answered(t) => ENABLED HandleCallToolReturn(t)
    /\ Answered(t) =>
         /\ Len(loc[t].response) = 1
         /\ loc[t].response[1].type = "text"
         /\ LET r == loc[t].ret
            IN /\ r.kind \in ResultKinds => Document(t) = r
               /\ r.kind = "error" =>
                    /\ r.code \in ErrorCode
                    /\ Document(t).error.code \in 1001..1009 \cup 2001..2006
                    /\ Document(t).error.code = ErrorNumber[r.code]
                    /\ Document(t).error.message = r.code
               /\ r.kind \notin ResultKinds \cup {"error"} =>
                    Document(t).error.code = -1
               /\ loc[t].op = "call_tool" /\ loc[t].name \notin ToolNames =>
                    Document(t).error.code = -1

\* The answer to a set_config whose handle raised an exception of the
\* driver.
C30_Witness ==
  /\ Answered("c1")
  /\ loc["c1"].op = "set_config"
  /\ loc["c1"].ret.kind = "raised"
  /\ Document("c1").error.code = -1

(* ---------------------------------------------------------------------- *)
(* Probe failures                                                          *)
(* ---------------------------------------------------------------------- *)
\* The probe of handle h meets an exception of the handle, of any type.
ProbeExcepts(h) == handles[h].open /\ (~handles[h].alive \/ handles[h].fault)

\* The locals of a call that ends with a status whose connected is false.
ReportsDisconnected(l) ==
  /\ "ret" \in DOMAIN l
  /\ l.ret.kind = "status"
  /\ ~l.ret.status.connected

(* C31: when the probe of a registered port's handle meets an exception,   *)
(* of whatever type, get_status, open_port and set_config return a status  *)
(* with connected=false, and the scan of the reconnect thread puts every   *)
(* such auto-reconnect port that is not being reconnected on its list      *)
C31_ProbeFailureIsDisconnected ==
  [][/\ \A t \in Clients :
          /\ GetStatusRead(t) /\ loc[t].port \in DOMAIN ports
                /\ ProbeExcepts(ports[loc[t].port].handle)
                => ReportsDisconnected(loc'[t])
          /\ OpenPortCheck(t) /\ loc[t].port \in DOMAIN ports
                /\ ProbeExcepts(ports[loc[t].port].handle)
                => ReportsDisconnected(loc'[t])
          /\ OpenPortInsert(t) /\ ProbeExcepts(loc[t].h)
                => ReportsDisconnected(loc'[t])
          /\ SetConfigStore(t) /\ ProbeExcepts(loc[t].h)
                => ReportsDisconnected(loc'[t])
     /\ SupScan =>
          \A p \in DOMAIN ports :
            /\ ports[p].auto_reconnect
            /\ ~ports[p].reconnecting
            /\ ProbeExcepts(ports[p].handle)
            => /\ ports'[p].reconnecting
               /\ \E i \in DOMAIN sup'.queue : sup'.queue[i].port = p]_vars

(* ---------------------------------------------------------------------- *)
(* Ports without auto-reconnect                                            *)
(* ---------------------------------------------------------------------- *)
(* C32: a registered port whose auto_reconnect is false never has          *)
(* reconnecting=true, and no step of the reconnect thread removes it,      *)
(* gives it another handle or closes its handle                            *)
C32_NoAutoReconnectUntouched ==
  [][/\ \A p \in DOMAIN ports' :
          ~ports'[p].auto_reconnect => ~ports'[p].reconnecting
     /\ SupStep =>
          \A p \in DOMAIN ports :
            ~ports[p].auto_reconnect =>
              /\ p \in DOMAIN ports'
              /\ ports'[p].handle = ports[p].handle
              /\ handles'[ports[p].handle] = handles[ports[p].handle]]_vars

(* ---------------------------------------------------------------------- *)
(* Shutdown                                                                *)
(* ---------------------------------------------------------------------- *)
\* close() has been called on handle h, or h is closed.
CloseDone(hs, h) == hs[h].closeCalled \/ ~hs[h].open

\* SerialManager.shutdown has cleared the registry.
RegistryShutDown ==
  /\ ~sup.running
  /\ \A t \in Clients : pc[t] \notin {"sh_join", "sh_lock", "sh_close"}

\* Session i has been told to stop: its flag is down and its event is set,
\* or its reader had ended before on a read that failed.
SignalledToStop(ss, i) ==
  /\ ~ss[i].running
  /\ ss[i].stop \/ ss[i].rpc = "exit"

(* C33: the step that ends SerialManager.shutdown leaves the registry      *)
(* empty and has called close() on every handle that was registered; once  *)
(* it is over the registry stays empty, whatever the recreate attempts in  *)
(* flight do; the step that ends TerminalManager.shutdown leaves the       *)
(* session map empty with every session that was in it told to stop        *)
C33_ShutdownEmpties ==
  [][/\ \A t \in Clients :
          /\ ShutdownClose(t) =>
                /\ DOMAIN ports' = {}
                /\ \A p \in DOMAIN ports : CloseDone(handles', ports[p].handle)
          /\ TShutdownClear(t) =>
                /\ DOMAIN sessions' = {}
                /\ \A p \in DOMAIN sessions : SignalledToStop(sess', sessions[p])
     /\ RegistryShutDown => DOMAIN ports = {} /\ DOMAIN ports' = {}]_vars

\* Both managers are shut down; a session was stopped by it, and a recreate
\* attempt that was in flight has made its handle and closed it again.
C33_Witness ==
  /\ RegistryShutDown
  /\ pc["c2"] = "idle"
  /\ DOMAIN ports = {}
  /\ sup.newh # 0
  /\ ~handles[sup.newh].open
  /\ pc[Sup] \in {"sup_release", "sup_next"}
  /\ DOMAIN sessions = {}
  /\ \E i \in SessionIds : sess[i].stop

(* ---------------------------------------------------------------------- *)
(* Eviction                                                                *)
(* ---------------------------------------------------------------------- *)
\* An append to the buffer of session i puts its chunk in: the reader's, or
\* the echo of a send_command.
Appends(i, d) ==
  \/ ReaderAppendPush(i) /\ d = sess[i].data
  \/ \E t \in Clients : SendCommandPush(t) /\ loc[t].sid = i /\ d = loc[t].raw

\* A turn of the eviction loop of an append to the buffer of session i.
Evicts(i) ==
  \/ ReaderAppendEvict(i)
  \/ \E t \in Clients : SendCommandEvict(t) /\ loc[t].sid = i

\* read_output(clear=True) or clear_buffer empties the buffer of session i.
Clears(i) ==
  \E t \in Clients :
    /\ (ReadOutputClear(t) /\ loc[t].clear) \/ ClearBufferClear(t)
    /\ loc[t].sid = i

(* C34: every step leaves the chunks of a session's buffer as they are,    *)
(* or puts the chunk of an append after them, or takes the oldest chunk    *)
(* away in the eviction loop of an append whose total is over the          *)
(* capacity, or takes them all away in read_output(clear=true) or          *)
(* clear_buffer; so the buffer is always a run of whole chunks that ends   *)
(* with the last one appended since the last clear                         *)
C34_EvictionOldestFirst ==
  [][\A i \in SessionIds :
       LET b == sess[i].buffer
           c == sess'[i].buffer
       IN \/ c = b
          \/ /\ Len(c) = Len(b) + 1
             /\ SubSeq(c, 1, Len(b)) = b
             /\ Appends(i, c[Len(c)])
          \/ /\ b # <<>>
             /\ c = Tail(b)
             /\ sess[i].size > sess[i].max
             /\ Evicts(i)
          \/ /\ c = <<>>
             /\ Clears(i)]_vars

\* An append has taken the total over the capacity with three chunks in
\* the buffer: its eviction loop is about to take the oldest.
C34_Witness ==
  \E i \in SessionIds :
    /\ sess[i].rpc = "ap_evict"
    /\ Len(sess[i].buffer) = 3
    /\ sess[i].size > sess[i].max

(* ---------------------------------------------------------------------- *)
(* Attempts and re-opened ports                                            *)
(* ---------------------------------------------------------------------- *)
\* The swap of the attempt in progress finds, under its port id, an entry
\* that is not the one the scan flagged: the port was closed and opened
\* again during the attempt.
SwapMeetsOtherEntry ==
  /\ Steps(Sup)
  /\ pc[Sup] = "sup_swap"
  /\ sup.cur.port \in DOMAIN ports
  /\ ports[sup.cur.port].handle # sup.cur.target

(* C35: when the port of a recreate attempt was closed and opened again    *)
(* during the attempt, the swap leaves the entry, its handle and its       *)
(* configuration as they are, and close() is called on the handle the      *)
(* attempt made                                                            *)
C35_AttemptSparesOtherEntry ==
  [][SwapMeetsOtherEntry =>
       LET p == sup.cur.port
       IN /\ ports' = ports
          /\ handles'[ports[p].handle] = handles[ports[p].handle]
          /\ CloseDone(handles', sup.newh)]_vars

(* ---------------------------------------------------------------------- *)
(* Attempts and set_config                                                 *)
(* ---------------------------------------------------------------------- *)
\* The swap of the attempt in progress replaces the handle of the entry the
\* scan flagged.
SwapMeetsOwnEntry ==
  /\ Installs
  /\ ports[sup.cur.port].handle = sup.cur.target

(* C36: the swap of a recreate attempt keeps the configuration stored in   *)
(* the entry, which is that of the last successful open_port or            *)
(* set_config, and the handle it installs has the settings of that         *)
(* configuration                                                           *)
C36_SwapKeepsStoredConfig ==
  [][SwapMeetsOwnEntry =>
       LET p == sup.cur.port
       IN /\ ports'[p].config = ports[p].config
          /\ handles'[ports'[p].handle].settings = SerialSettings(ports[p].config)]_vars

(* ---------------------------------------------------------------------- *)
(* Handles and entries                                                     *)
(* ---------------------------------------------------------------------- *)
\* Handle h was created and close() has not been called on it.
Unclosed(h) == handles[h].open /\ ~handles[h].closeCalled

\* The registry entries that refer to handle h.
Referring(h) == {p \in DOMAIN ports : ports[p].handle = h}

\* The handle the recreate attempt in progress has made and has not yet
\* installed or discarded.
AttemptHolds(h) ==
  /\ pc[Sup] \in {"sup_swap_lock", "sup_swap"}
  /\ sup.newh = h

\* A call inside the registry lock holds handle h between making it and
\* registering it, or between taking it out of the registry and closing it.
CallHolds(h) ==
  \E t \in Clients :
    /\ lock = t
    /\ pc[t] \in {"open_insert", "close_serial"}
    /\ loc[t].h = h

(* C37: a handle that was created and on which close() has not been called *)
(* is the handle of exactly one registry entry, unless it is the one the   *)
(* recreate attempt in progress has made and not yet installed or          *)
(* discarded, or the one an open_port or close_port that holds the         *)
(* registry lock is registering or closing; and no handle is the handle of *)
(* two entries                                                             *)
C37_HandlesAccountedFor ==
  \A h \in HandleIds :
    /\ Cardinality(Referring(h)) <= 1
    /\ Unclosed(h) =>
         \/ Cardinality(Referring(h)) = 1 /\ ~AttemptHolds(h) /\ ~CallHolds(h)
         \/ Referring(h) = {} /\ AttemptHolds(h) /\ ~CallHolds(h)
         \/ Referring(h) = {} /\ ~AttemptHolds(h) /\ CallHolds(h)

\* The registry was shut down while a recreate attempt held a handle it had
\* made, and the port is open again.
C37_Witness ==
  /\ ~sup.running
  /\ pc["c2"] = "idle"
  /\ \E h \in HandleIds : Unclosed(h) /\ AttemptHolds(h)
  /\ \E h \in HandleIds : Unclosed(h) /\ Cardinality(Referring(h)) = 1

(* ---------------------------------------------------------------------- *)
(* A session whose reader has ended on a read error                        *)
(* ---------------------------------------------------------------------- *)
\* The reader loop of session i has ended and nobody told it to stop: a
\* read raised.
ReaderFailed(i) == sess[i].rpc = "exit" /\ ~sess[i].stop

\* Session i stays in the map under p unless close_session(p) takes it out.
StaysRegistered(p, i) ==
  \/ p \in DOMAIN sessions' /\ sessions'[p] = i
  \/ \E t \in Clients : CloseSessionPop(t) /\ loc[t].port = p

\* get_session_info of session i says is_active=false.
InfoSaysInactive(i) ==
  \A t \in Clients :
    GetSessionInfoInfo(t) /\ loc[t].sid = i =>
      loc'[t].ret.kind = "info" /\ ~loc'[t].ret.is_active

\* read_output of session i takes the bytes of its buffer, and returns them
\* as text.
OutputIsBuffer(i) ==
  \A t \in Clients :
    ReadOutputJoin(t) /\ loc[t].sid = i =>
         IF "ret" \in DOMAIN loc'[t]
           THEN /\ loc'[t].ret.kind = "output"
                /\ loc'[t].ret.bytes_read = SumLen(sess[i].buffer)
                /\ loc'[t].ret.data = Utf8Decode(Join(sess[i].buffer))
           ELSE loc'[t].result = Join(sess[i].buffer)

\* A step of create_session(p) that ends the call.
CreateEnds(t, p) ==
  /\ CreateSessionStatus(t) \/ CreateSessionCheck(t)
  /\ loc[t].port = p
  /\ "ret" \in DOMAIN loc'[t]

(* C38, as claimed: a session whose reader has ended on a read error stays *)
(* in the map until close_session, get_session_info says is_active=false,  *)
(* read_output returns the bytes of its buffer, and create_session for its *)
(* id fails session-exists                                                 *)
C38_FailedReaderBlocksCreate ==
  [][\A p \in DOMAIN sessions :
       LET i == sessions[p]
       IN ReaderFailed(i) =>
            /\ StaysRegistered(p, i)
            /\ InfoSaysInactive(i)
            /\ OutputIsBuffer(i)
            /\ \A t \in Clients :
                 CreateEnds(t, p) => loc'[t].ret = SerialError("SESSION_EXISTS")]_vars

(* C38, amended: ... and create_session for its id creates no session: it  *)
(* fails port-not-open when the registry does not report the port open,    *)
(* and session-exists when it does                                         *)
C38_FailedReaderStaysReadable ==
  [][\A p \in DOMAIN sessions :
       LET i == sessions[p]
       IN ReaderFailed(i) =>
            /\ StaysRegistered(p, i)
            /\ InfoSaysInactive(i)
            /\ OutputIsBuffer(i)
            /\ \A t \in Clients :
                 CreateEnds(t, p) =>
                   /\ sessions' = sessions
                   /\ sess' = sess
                   /\ loc'[t].ret =
                        IF pc[t] = "cs_status" THEN SerialError("PORT_NOT_OPEN")
                        ELSE SerialError("SESSION_EXISTS")
                   /\ pc[t] = "cs_status" => p \notin DOMAIN ports]_vars

\* A read_output has returned the byte of a session whose reader has ended
\* on a read error, and a create_session for its id has failed
\* session-exists.
C38_Witness ==
  /\ \E p \in DOMAIN sessions :
       /\ ReaderFailed(sessions[p])
       /\ ~sess[sessions[p]].running
       /\ pc["c1"] = "t_release"
       /\ loc["c1"].op = "create_session"
       /\ loc["c1"].port = p
       /\ "ret" \in DOMAIN loc["c1"]
       /\ loc["c1"].ret = SerialError("SESSION_EXISTS")
  /\ Finishing("c2", "read_output")
  /\ loc["c2"].ret.kind = "output"
  /\ loc["c2"].ret.bytes_read = 1

(* ---------------------------------------------------------------------- *)
(* Chunks between the read and the clear of read_output                    *)
(* ---------------------------------------------------------------------- *)
\* The clear of a read_output(clear=True) by t on session i takes away
\* exactly the chunks whose bytes the call has joined into its result.
ClearsWhatItRead(t, i) ==
  /\ ReadOutputClear(t)
  /\ loc[t].sid = i
  /\ loc[t].result = Join(sess[i].buffer)
  /\ sess'[i].buffer = <<>>

\* clear_buffer by some thread empties the buffer of session i.
Discards(i) == \E t \in Clients : ClearBufferClear(t) /\ loc[t].sid = i

\* The return of a read_output(clear=True) by t: the bytes it joined are
\* handed over, and the buffer is still as the clear left it.
ReturnsWhatItRead(t) ==
  /\ loc'[t].ret = OutputResult(loc[t].result)
  /\ loc[t].result # <<>>
  /\ sess[loc[t].sid].buffer = <<>>
  /\ sess'[loc[t].sid].buffer = <<>>

(* C39: a chunk leaves a session's buffer only in the eviction loop of an   *)
(* append, in clear_buffer, or in the clear of a read_output(clear=true)   *)
(* whose result holds exactly the chunks that are in the buffer at the     *)
(* clear; that call returns this result with the buffer still empty, so no *)
(* chunk is lost between the read and the clear and none is returned by a  *)
(* second read_output(clear=true)                                          *)
C39_ReadAndClearAtomic ==
  [][/\ \A i \in SessionIds :
          LET b == sess[i].buffer
              c == sess'[i].buffer
          IN  \/ Len(c) >= Len(b) /\ SubSeq(c, 1, Len(b)) = b
              \/ b # <<>> /\ c = Tail(b) /\ Evicts(i)
              \/ c = <<>> /\ Discards(i)
              \/ \E t \in Clients : ClearsWhatItRead(t, i)
     /\ \A t \in Clients : ReadOutputZero(t) => ReturnsWhatItRead(t)]_vars

\* A read_output(clear=True) has joined two chunks and not yet cleared
\* them, while the reader waits with a chunk to append and an echo waits
\* as well.
C39_Witness ==
  /\ pc["c2"] = "ro_clear"
  /\ Len(sess[loc["c2"].sid].buffer) = 2
  /\ sess[loc["c2"].sid].rpc = "ap_lock"
  /\ pc["c1"] = "sc_echo"

(* ---------------------------------------------------------------------- *)
(* A pass of the reconnect thread that an exception ends                   *)
(* ---------------------------------------------------------------------- *)
\* p is registered with its reconnecting flag set.
HasFlag(p) == p \in DOMAIN ports /\ ports[p].reconnecting

\* A recreate attempt for p is listed or in progress.
AttemptPending(p) == Scheduled(p) \/ Attempting(p)

(* C40: a reconnecting flag that is set is cleared later or its entry is   *)
(* removed, and a port is never flagged with no recreate attempt listed or *)
(* in progress, also when the probe of another port raises during the pass *)
C40_FlagNeverStuck ==
  /\ [](\A p \in DOMAIN ports : ports[p].reconnecting => AttemptPending(p))
  /\ \A p \in TwoPorts : HasFlag(p) ~> ~HasFlag(p)

====
